---------------------------- MODULE Spec2Model ----------------------------
(***************************************************************************)
(* A model of the NCUA data processor: the schema generation of            *)
(* DataProcessor (src/processor.py), the type catalogue and the schema     *)
(* generation of SupabaseTableManager (src/create_ncua_tables.py), and the *)
(* chunked loaders (src/database.py, src/process_ncua_data.py).            *)
(*                                                                         *)
(* Python strings whose characters the code inspects (column names, file   *)
(* names, catalogue keys) are sequences of one-character strings; strings  *)
(* the code only compares as a whole (dtype names, SQL types, declared     *)
(* types) are TLA+ strings.                                                *)
(***************************************************************************)
EXTENDS Integers, Sequences, FiniteSets, TLC

VARIABLES
    \* --- DataProcessor._process_file, up to the table definition ---
    file,          \* base name of the extract (without ".txt")
    df,            \* the frame: [columns: sequence of [name, dtype, vals], nrows]
    pc,            \* position in _process_file
    table_name,    \* table identifier computed at processor.py:237
    schema,        \* the table-definition statement handed to create_tables
    schema_error,  \* TRUE when _generate_schema raised (processor.py:258)
    \* --- SupabaseTableManager: catalogue and table definition ---
    column_types,  \* the dict built by load_column_type_definitions
    tm_pc,         \* position in the table manager's run
    tm_dir,        \* the directory whose description files are being read
    tm_idx,        \* index of the next description file of tm_dir
    has_zip_desc_files,  \* create_ncua_tables.py:70
    tm_df,         \* the frame handed to create_table_from_dataframe
    tm_columns,    \* the column definitions it generated
    tm_zip,        \* what the file system holds for the zip-specific directory
    tm_tried,      \* the description files tried so far, in order: [dir, exists]
    \* --- the load: row count, chunks, retries, the remote table ---
    loader,        \* the class whose insert method runs
    total,         \* number of records of the extract
    ld_pc,         \* position in the load
    run,           \* number of the current run of the load for this extract
    store,         \* the remote table: row range <<first, last>> -> times stored
    record_count,  \* processor.py:299-312
    start_idx,     \* start index of the current batch (range(0, len, batch_size))
    retry_count,   \* failed attempts of the current batch
    attempts,      \* this run: batch start index -> submissions made
    acked,         \* this run: start indices of the batches acknowledged
    failed,        \* this run: start indices of the batches that exhausted their attempts
    http,          \* the last HTTP request issued
    run_requests,  \* insert requests issued in this run
    rows_at_start, \* rows in the table when this run began
    result,        \* what the insert method returned
    reported,      \* what the caller printed about the load
    log,           \* this run: the submissions made, in order:
                   \* [batch, rows, status_2xx: answered 200..299, ok: taken as success]
    \* --- the readers of an extract ---
    reader,        \* the class whose read step runs
    rd_file,       \* the file: which encodings decode it, columns per separator
    rd_pc,         \* position in the read step
    rd_enc,        \* index of the encoding being tried
    rd_sep,        \* index of the separator being tried
    rd_result,     \* the frame returned: [encoding, sep, ncols]
    \* --- the run over the extracts of a ZIP ---
    zip_processor, \* the class whose ZIP method runs
    extracts,      \* what the processing of each extract of the ZIP runs into
    zip_idx,       \* index of the extract being processed
    zip_pc,        \* position in the ZIP method
    outcomes,      \* what became of the extracts handled so far
    success_count, \* processor.py:123
    error_count,   \* processor.py:124
    zip_has_period,   \* the name of the ZIP holds a year and a month (processor.py:110)
    temp_dir_exists,  \* the directory the ZIP is extracted to exists
    zip_in_input,     \* the ZIP is in the input directory
    \* --- the polling loop of main() ---
    input_zips,    \* the ZIPs of the input directory: name -> what becomes of its processing
    main_pc,       \* position in the loop
    newest_zip,    \* main.py:60
    selected,      \* the ZIPs handed to process_specific_zip so far
    \* --- the creation of the table of an extract ---
    creator,       \* the class whose table creation runs
    ct_schema,     \* the table definition to create
    remote,        \* the remote table: [exists, rows, columns]
    remote_before, \* the remote table before the creation began
    ct_pc,         \* position in the creation
    ct_sent,       \* the statements sent, in order: [kind, columns, type, status]
    ct_idx,        \* index of the column definition the fallback is at
    ct_success_count,  \* database.py:124
    ct_error_count,    \* database.py:125
    ct_result,     \* what the creation returned
    ct_printed,    \* what _process_file printed about it (processor.py:276-279)
    \* --- the statistical type of one column ---
    inf_col,       \* the column: [dtype, vals, raises, isna]
    inf_pc,        \* "column" before the inference, "typed" after it
    sql_type       \* processor.py:392-430

procVars == <<file, df, pc, table_name, schema, schema_error>>
tmVars == <<column_types, tm_pc, tm_dir, tm_idx, has_zip_desc_files, tm_df, tm_columns,
            tm_zip, tm_tried>>
loadVars == <<loader, total, ld_pc, run, store, record_count, start_idx, retry_count,
              attempts,
              acked, failed, http, run_requests, rows_at_start, result, reported,
              log>>
readVars == <<reader, rd_file, rd_pc, rd_enc, rd_sep, rd_result>>
zipVars == <<zip_processor, extracts, zip_idx, zip_pc, outcomes, success_count, error_count,
             zip_has_period, temp_dir_exists, zip_in_input>>
mainVars == <<input_zips, main_pc, newest_zip, selected>>
inferVars == <<inf_col, inf_pc, sql_type>>
createVars == <<creator, ct_schema, remote, remote_before, ct_pc, ct_sent, ct_idx,
                ct_success_count, ct_error_count, ct_result, ct_printed>>
vars == <<procVars, tmVars, loadVars, readVars, zipVars, createVars, inferVars, mainVars>>

-----------------------------------------------------------------------------
(* Bounds of the model. *)

\* Largest number of columns of an extract read by DataProcessor.
MaxCols == 3
\* Largest number of columns of a sample frame of SupabaseTableManager.
TmMaxCols == 1
\* Largest number of rows of one description file (after its header).
MaxRecs == 1
\* Largest number of batches of an extract.
MaxChunks == 2
\* Largest number of runs of the load for one extract.
MaxRuns == 2
\* Largest number of columns a file yields under one separator.
MaxReadCols == 2
\* Largest number of extracts of a ZIP.
MaxExtracts == 3
\* columns of an extract whose table is created
MaxCtCols == 2
\* non-null values of a column whose type is inferred
MaxInferVals == 2
\* ZIPs in the input directory
MaxZips == 3

-----------------------------------------------------------------------------
(* Python str operations, on sequences of characters. *)

UpperChars == <<"A","B","C","D","E","F","G","H","I","J","K","L","M",
                "N","O","P","Q","R","S","T","U","V","W","X","Y","Z">>
LowerChars == <<"a","b","c","d","e","f","g","h","i","j","k","l","m",
                "n","o","p","q","r","s","t","u","v","w","x","y","z">>
DigitChars == <<"0","1","2","3","4","5","6","7","8","9">>

\* str.lower() on one character
LowerChar(c) ==
    IF \E i \in 1..26 : UpperChars[i] = c
    THEN LowerChars[CHOOSE i \in 1..26 : UpperChars[i] = c]
    ELSE c

\* str.upper() on one character
UpperChar(c) ==
    IF \E i \in 1..26 : LowerChars[i] = c
    THEN UpperChars[CHOOSE i \in 1..26 : LowerChars[i] = c]
    ELSE c

StrLower(s) == [i \in 1..Len(s) |-> LowerChar(s[i])]
StrUpper(s) == [i \in 1..Len(s) |-> UpperChar(s[i])]

\* str.replace(a, b) for one-character a and b
StrReplace(s, a, b) == [i \in 1..Len(s) |-> IF s[i] = a THEN b ELSE s[i]]

IsSpace(c) == c \in {" ", "\t"}

\* str.strip(): leading and trailing white space removed
StrStrip(s) ==
    LET keep == {i \in 1..Len(s) : ~IsSpace(s[i])}
    IN  IF keep = {} THEN <<>>
        ELSE LET lo == CHOOSE i \in keep : \A j \in keep : i <= j
                 hi == CHOOSE i \in keep : \A j \in keep : j <= i
             IN  SubSeq(s, lo, hi)

\* the Python test  sub in s
StrContains(sub, s) ==
    \E i \in 0..(Len(s) - Len(sub)) : SubSeq(s, i + 1, i + Len(sub)) = sub

\* str(n) for a natural number n
RECURSIVE IntToStr(_)
IntToStr(n) ==
    IF n < 10 THEN <<DigitChars[n + 1]>>
    ELSE IntToStr(n \div 10) \o <<DigitChars[(n % 10) + 1]>>

IsAlnumOrUnderscore(c) ==
    \/ \E i \in 1..26 : UpperChars[i] = c \/ LowerChars[i] = c
    \/ \E i \in 1..10 : DigitChars[i] = c
    \/ c = "_"

-----------------------------------------------------------------------------
(* DataProcessor: names. *)

\* col.strip().lower().replace(' ', '_').replace('-', '_')
CleanColumnName(col) ==
    StrReplace(StrReplace(StrLower(StrStrip(col)), " ", "_"), "-", "_")

\* _get_table_name, with the period 2024-03
PeriodSuffix == <<"_","2","0","2","4","_","0","3">>
GetTableName(base_name) ==
    StrReplace(StrReplace(StrLower(StrStrip(base_name)), "-", "_"), " ", "_")
        \o PeriodSuffix

\* 'fs220l' in file.lower()
Fs220l == <<"f","s","2","2","0","l">>
IsFs220l(f) == StrContains(Fs220l, StrLower(f))

\* any(t in table_name.lower() for t in tables_with_large_numbers)
TablesWithLargeNumbers ==
    { <<"f","s","2","2","0","l">>, <<"f","s","2","2","0","d">>,
      <<"f","s","2","2","0","e">>, <<"f","s","2","2","0","f">> }
HasLargeNumbers(t) == \E x \in TablesWithLargeNumbers : StrContains(x, StrLower(t))


-----------------------------------------------------------------------------
(* DataProcessor._generate_schema. *)

\* A Python int is a pair [hi, lo] standing for hi * 2^16 + lo, 0 <= lo < 2^16:
\* the values of an int64 column lie outside the integers TLC computes with.
Limb == 256 * 256
Num(hi, lo) == [hi |-> hi, lo |-> lo]
NumLess(a, b) == a.hi < b.hi \/ (a.hi = b.hi /\ a.lo < b.lo)
NumLeq(a, b) == a = b \/ NumLess(a, b)

\* 2147483647 and -2147483648 (processor.py:405)
Int4Max == Num(32767, Limb - 1)
Int4Min == Num(-32768, 0)

\* non_null_values.max(), non_null_values.min()
SetMax(S) == CHOOSE x \in S : \A y \in S : NumLeq(y, x)
SetMin(S) == CHOOSE x \in S : \A y \in S : NumLeq(x, y)

\* str(df[col].dtype) of the dtypes pandas.read_csv infers
DtInt == <<"i","n","t","6","4">>
DtFloat == <<"f","l","o","a","t","6","4">>
DtObject == <<"o","b","j","e","c","t">>
DtDatetime == <<"d","a","t","e","t","i","m","e","6","4","[","n","s","]">>

\* The statistical type of a column outside the large-number tables
\* (processor.py:392-430).  vals are the non-null values of the column,
\* raises says that dropna, max, min or the comparisons raise, isna that
\* max or min is NaN.
InferSqlTypeOf(dtype, vals, raises, isna) ==
    IF StrContains(<<"i","n","t">>, dtype)
    THEN IF raises THEN "NUMERIC"
         ELSE IF vals # {}
         THEN IF isna THEN "INTEGER"
              ELSE IF NumLess(Int4Max, SetMax(vals)) \/ NumLess(SetMin(vals), Int4Min)
              THEN "NUMERIC"
              ELSE "INTEGER"
         ELSE "INTEGER"
    ELSE IF StrContains(<<"f","l","o","a","t">>, dtype) THEN "NUMERIC"
    ELSE IF StrContains(<<"d","a","t","e","t","i","m","e">>, dtype) THEN "TIMESTAMP"
    ELSE "TEXT"

\* ... of a column that read_csv returned: nothing raises on its values.
InferSqlType(col) == InferSqlTypeOf(col.dtype, col.vals, FALSE, FALSE)

\* The type of one column in a table with known large numbers
\* (processor.py:382-389).
LargeTableSqlType(col) ==
    IF StrContains(<<"i","n","t">>, col.dtype)
           \/ StrContains(<<"f","l","o","a","t">>, col.dtype)
    THEN "NUMERIC"
    ELSE IF StrContains(<<"d","a","t","e","t","i","m","e">>, col.dtype) THEN "TIMESTAMP"
    ELSE "TEXT"

\* Determine data type (processor.py:378-430)
ColumnSqlType(col, t) ==
    IF HasLargeNumbers(t) THEN LargeTableSqlType(col) ELSE InferSqlType(col)

\* How many columns of the frame carry the label  name.
LabelCount(columns, name) ==
    Cardinality({i \in 1..Len(columns) : columns[i].name = name})

\* A _generate_schema in which df[col].dtype never raises.
DtypeNeverRaises(columns, i) == FALSE

\* df[col].dtype (processor.py:379): with a label that several columns carry,
\* df[col] is a DataFrame, which has no attribute dtype: AttributeError.
DtypeRaises(columns, i) == LabelCount(columns, columns[i].name) > 1

\* Handle duplicate column names by adding a suffix (processor.py:371-376):
\* the identifier of a column and the updated column_index.
SuffixedName(clean_col, column_index) ==
    IF clean_col \in DOMAIN column_index
    THEN clean_col \o <<"_">> \o IntToStr(column_index[clean_col] + 1)
    ELSE clean_col

UpdateColumnIndex(clean_col, column_index) ==
    [k \in DOMAIN column_index \cup {clean_col} |->
        IF k = clean_col
        THEN IF clean_col \in DOMAIN column_index THEN column_index[clean_col] + 1 ELSE 0
        ELSE column_index[k]]

EmptyDict == [k \in {} |-> 0]

IdColumn == [name |-> <<"i","d">>, type |-> "SERIAL PRIMARY KEY"]

\* The loop over df.columns (processor.py:367-432).
RECURSIVE SchemaLoop(_, _, _, _, _)
SchemaLoop(columns, t, i, column_index, acc) ==
    IF i > Len(columns) THEN [raised |-> FALSE, columns |-> acc]
    ELSE LET clean_col == CleanColumnName(columns[i].name)
         IN  IF DtypeRaises(columns, i)
             THEN [raised |-> TRUE, columns |-> <<>>]
             ELSE SchemaLoop(columns, t, i + 1,
                             UpdateColumnIndex(clean_col, column_index),
                             Append(acc, [name |-> SuffixedName(clean_col, column_index),
                                          type |-> ColumnSqlType(columns[i], t)]))

\* _generate_schema(df, table_name): either it raises, or it returns
\* CREATE TABLE IF NOT EXISTS table_name (id SERIAL PRIMARY KEY, columns);
GenerateSchema(columns, t) ==
    LET r == SchemaLoop(columns, t, 1, EmptyDict, <<>>)
    IN  IF r.raised THEN [raised |-> TRUE]
        ELSE [raised |-> FALSE,
              stmt |-> "CREATE TABLE IF NOT EXISTS", table |-> t,
              columns |-> <<IdColumn>> \o r.columns]

\* A simplified schema that leaves the synthetic key out.
SimplifiedSchemaWithoutKey(columns, t) ==
    [raised |-> FALSE,
     stmt |-> "CREATE TABLE IF NOT EXISTS", table |-> t,
     columns |-> [i \in 1..Len(columns) |->
                     [name |-> CleanColumnName(columns[i].name), type |-> "TEXT"]]]

\* The simplified schema of processor.py:263-271: every column TEXT.
SimplifiedSchema(columns, t) ==
    [raised |-> FALSE,
     stmt |-> "CREATE TABLE IF NOT EXISTS", table |-> t,
     columns |-> <<IdColumn>> \o
         [i \in 1..Len(columns) |->
             [name |-> CleanColumnName(columns[i].name), type |-> "TEXT"]]]

NoSchema == [raised |-> FALSE, stmt |-> "none", table |-> <<>>, columns |-> <<>>]

\* The keys of a cleaned record of DatabaseManager.insert_data
\* (database.py:184 and 194-197): to_dict('records') has one key per label,
\* and each key is cleaned again.
RecordKeys(columns) ==
    { CleanColumnName(k) : k \in {columns[i].name : i \in 1..Len(columns)} }

\* The kind of the values of a column in the cleaned records
\* (database.py:199-206): NaN becomes None, a dict or a list becomes a
\* string, every other value is submitted as it is in the frame.
RecordValueKind(col) ==
    IF col.dtype \in {DtInt, DtFloat} THEN "number"
    ELSE IF col.dtype = DtDatetime THEN "timestamp"
    ELSE "string"


-----------------------------------------------------------------------------
(* SupabaseTableManager: the type catalogue. *)

\* A description file is a sequence of rows [name, type, ncols] (the header
\* row already skipped); a dict is a function with the keys as its domain.

DictSet(d, k, v) == [x \in DOMAIN d \cup {k} |-> IF x = k THEN v ELSE d[x]]

\* x.strip().strip('"')
StripQuotes(s) ==
    LET t == StrStrip(s)
        keep == {i \in 1..Len(t) : t[i] # "\""}
    IN  IF keep = {} THEN <<>>
        ELSE LET lo == CHOOSE i \in keep : \A j \in keep : i <= j
                 hi == CHOOSE i \in keep : \A j \in keep : j <= i
             IN  SubSeq(t, lo, hi)

\* One row of a description file (create_ncua_tables.py:123-136).
LoadRow(row, types) ==
    IF row.ncols < 3 THEN types
    ELSE LET field_name == StripQuotes(row.name)
             field_type == StripQuotes(row.type)
             t1 == DictSet(types, StrUpper(field_name), field_type)
         IN  IF "_" \in {field_name[i] : i \in 1..Len(field_name)}
             THEN DictSet(t1, StrUpper(StrReplace(field_name, "_", "-")), field_type)
             ELSE IF "-" \in {field_name[i] : i \in 1..Len(field_name)}
             THEN DictSet(t1, StrUpper(StrReplace(field_name, "-", "_")), field_type)
             ELSE t1

\* _load_column_types_from_file on a file that exists.
RECURSIVE LoadColumnTypesFromFile(_, _)
LoadColumnTypesFromFile(rows, types) ==
    IF rows = <<>> THEN types
    ELSE LoadColumnTypesFromFile(Tail(rows), LoadRow(Head(rows), types))

KeyCuNumber == <<"C","U","_","N","U","M","B","E","R">>
KeyCuHyphen == <<"C","U","-","N","U","M","B","E","R">>
KeyCuPlain == <<"C","U","N","U","M","B","E","R">>
TyInt == <<"i","n","t">>

\* Manually ensure critical join fields have consistent types
\* (create_ncua_tables.py:90-95).
PinJoinKeys(types) ==
    IF KeyCuNumber \in DOMAIN types /\ StrLower(types[KeyCuNumber]) = TyInt
    THEN DictSet(DictSet(DictSet(types, KeyCuNumber, TyInt), KeyCuHyphen, TyInt),
                 KeyCuPlain, TyInt)
    ELSE types

\* Map NCUA types to PostgreSQL types (create_ncua_tables.py:166-185).
MapNcuaType(ncua_type) ==
    CASE ncua_type = <<"i","n","t">> -> "INTEGER"
      [] ncua_type = <<"s","m","a","l","l","i","n","t">> -> "SMALLINT"
      [] ncua_type = <<"b","i","g","i","n","t">> -> "BIGINT"
      [] ncua_type = <<"v","a","r","c","h","a","r">> -> "TEXT"
      [] ncua_type = <<"c","h","a","r">> -> "TEXT"
      [] ncua_type \in { <<"d","a","t","e">>,
                         <<"s","m","a","l","l","d","a","t","e","t","i","m","e">> } -> "TIMESTAMP"
      [] ncua_type \in { <<"d","e","c","i","m","a","l">>, <<"f","l","o","a","t">> } -> "NUMERIC"
      [] OTHER -> "TEXT"

\* critical_join_fields (create_ncua_tables.py:146-150)
CriticalJoinFields ==
    { <<"c","u","_","n","u","m","b","e","r">>,
      <<"j","o","i","n","_","n","u","m","b","e","r">>,
      <<"c","y","c","l","e","_","d","a","t","e">> }
CriticalJoinType(col_lower) ==
    IF col_lower = <<"c","y","c","l","e","_","d","a","t","e">> THEN "TIMESTAMP" ELSE "INTEGER"

\* any(keyword in col_lower for keyword in ['phone', 'fax', 'phonenumber'])
Keywords ==
    { <<"p","h","o","n","e">>, <<"f","a","x">>,
      <<"p","h","o","n","e","n","u","m","b","e","r">> }
HasKeyword(col_lower) == \E k \in Keywords : StrContains(k, col_lower)

\* The pandas dtype fallback (create_ncua_tables.py:187-195).
DtypeFallback(pandas_dtype) ==
    IF pandas_dtype = DtInt THEN "INTEGER"
    ELSE IF pandas_dtype = DtFloat THEN "NUMERIC"
    ELSE IF pandas_dtype = DtDatetime THEN "TIMESTAMP"
    ELSE "TEXT"

\* get_sql_type_for_column(column_name, pandas_dtype), with the catalogue  types
GetSqlTypeForColumn(column_name, pandas_dtype, types) ==
    LET col_lower == StrLower(column_name)
        column_key == StrStrip(StrUpper(column_name))
    IN  IF col_lower \in CriticalJoinFields THEN CriticalJoinType(col_lower)
        ELSE IF HasKeyword(col_lower) THEN "TEXT"
        ELSE IF column_key \in DOMAIN types THEN MapNcuaType(StrLower(types[column_key]))
        ELSE DtypeFallback(pandas_dtype)

\* re.sub(r'[^a-zA-Z0-9_]', '_', col.lower())
TmCleanColumnName(col) ==
    [i \in 1..Len(col) |->
        IF IsAlnumOrUnderscore(LowerChar(col[i])) THEN LowerChar(col[i]) ELSE "_"]

\* The column definitions of create_table_from_dataframe
\* (create_ncua_tables.py:463-474).
TmColumnDef(col, types) ==
    [name |-> TmCleanColumnName(col.name),
     type |-> IF HasKeyword(StrLower(col.name)) THEN "TEXT"
              ELSE GetSqlTypeForColumn(col.name, col.dtype, types)]

CreateTableColumns(columns, types) ==
    [i \in 1..Len(columns) |-> TmColumnDef(columns[i], types)]


-----------------------------------------------------------------------------
(* The inputs of the model. *)

\* Column labels of an extract, as pandas.read_csv returns them.
NameSamples ==
    { <<"a","m","t">>, <<"A","m","t">>, <<"a","m","t","_","1">>,
      <<"a","m","t","-","1">>, <<"F","a","x">> }

\* Base names of extracts.
FileSamples ==
    { <<"F","O","I","C","U">>, <<"F","S","2","2","0","L">>, <<"F","S","2","2","0","D">> }

\* Sample values around the signed 32-bit range.
V2147483647 == Num(32767, Limb - 1)
V2147483648 == Num(32768, 0)
VMinus2147483649 == Num(-32769, Limb - 1)
V4000000000 == Num(61035, 10240)

\* dtype and non-null values of a column, as read_csv infers them: an int64
\* column has no null and at least one value.
ColumnProfiles ==
    { [dtype |-> DtInt, vals |-> {V2147483647}],
      [dtype |-> DtInt, vals |-> {V2147483648}],
      [dtype |-> DtInt, vals |-> {VMinus2147483649, Num(0, 0)}],
      [dtype |-> DtFloat, vals |-> {}],
      [dtype |-> DtObject, vals |-> {}] }

ColumnSamples ==
    { [name |-> n, dtype |-> p.dtype, vals |-> p.vals] : n \in NameSamples, p \in ColumnProfiles }

\* read_csv renames a repeated header name (amt, amt.1, ...): the labels of a
\* frame it returns are pairwise distinct.
DistinctLabels(columns) ==
    \A i, j \in 1..Len(columns) : columns[i].name = columns[j].name => i = j

\* The frames pd.read_csv can return for the file f (processor.py:187-222): a
\* frame without rows, or an FS220L file (read with dtype='object'), has
\* object columns only.
FramesOf(f) ==
    { [columns |-> c, nrows |-> n] :
        c \in { x \in UNION { [1..k -> ColumnSamples] : k \in 1..MaxCols } :
                  /\ DistinctLabels(x)
                  /\ IsFs220l(f) => \A i \in 1..Len(x) : x[i].dtype = DtObject },
        n \in {0, 2} }

ValidFrame(f, frame) ==
    frame.nrows = 0 => \A i \in 1..Len(frame.columns) : frame.columns[i].dtype = DtObject

\* Field names and declared types of the description files.
FieldNameSamples ==
    { <<"C","U","_","N","U","M","B","E","R">>, <<"c","u","-","n","u","m","b","e","r">>,
      <<"A","_","B","-","C">> }
FieldTypeSamples ==
    { <<"i","n","t">>, <<"I","N","T">>, <<"c","h","a","r">>, <<"b","i","g","i","n","t">> }
RowSamples ==
    { [name |-> n, type |-> t, ncols |-> k] :
        n \in FieldNameSamples, t \in FieldTypeSamples, k \in {2, 3} }
FileContents == UNION { [1..k -> RowSamples] : k \in 0..MaxRecs }

\* Columns of the sample frames of the table manager.
TmNameSamples ==
    { <<"C","U","_","N","U","M","B","E","R">>, <<"C","U","-","N","U","M","B","E","R">>,
      <<"C","U","N","U","M","B","E","R">>, <<"P","h","o","n","e">>,
      <<"A","_","B","-","C">>, <<"A","C","C","T">> }
TmColumnProfiles ==
    { [dtype |-> DtInt, vals |-> {V2147483647}],
      [dtype |-> DtInt, vals |-> {V4000000000}],
      [dtype |-> DtObject, vals |-> {}] }
TmColumnSamples ==
    { [name |-> n, dtype |-> p.dtype, vals |-> p.vals] : n \in TmNameSamples, p \in TmColumnProfiles }
TmFrames ==
    { x \in UNION { [1..k -> TmColumnSamples] : k \in 1..TmMaxCols } : DistinctLabels(x) }

-----------------------------------------------------------------------------
(* DataProcessor._process_file, from the frame it read to the statement it *)
(* hands to create_tables.                                                 *)

NoFrame == [columns |-> <<>>, nrows |-> 0]

NoRequest == [kind |-> "none", ignore_duplicates |-> FALSE, timeout |-> 0]

NoFile == [utf8 |-> FALSE, cp1252 |-> FALSE, cols |-> <<>>]

NoResult == [encoding |-> "none", sep |-> "none", ncols |-> 0]

ReadIdle ==
    /\ reader = "none" /\ rd_file = NoFile /\ rd_pc = "idle" /\ rd_enc = 0 /\ rd_sep = 0
    /\ rd_result = NoResult

NoTable == [exists |-> FALSE, rows |-> 0, columns |-> {}]

NoColumn == [dtype |-> <<>>, vals |-> {}, raises |-> FALSE, isna |-> FALSE]

InferIdle == inf_col = NoColumn /\ inf_pc = "idle" /\ sql_type = "none"

CreateIdle ==
    /\ creator = "none" /\ ct_schema = NoSchema /\ remote = NoTable /\ remote_before = NoTable
    /\ ct_pc = "idle" /\ ct_sent = <<>> /\ ct_idx = 0 /\ ct_success_count = 0
    /\ ct_error_count = 0 /\ ct_result = "none" /\ ct_printed = "none"

ZipIdle ==
    /\ zip_processor = "none" /\ extracts = <<>> /\ zip_idx = 0 /\ zip_pc = "idle"
    /\ outcomes = <<>> /\ success_count = 0 /\ error_count = 0
    /\ zip_has_period = FALSE /\ temp_dir_exists = FALSE /\ zip_in_input = FALSE

MainIdle ==
    /\ input_zips = EmptyDict /\ main_pc = "idle" /\ newest_zip = 0 /\ selected = {}

LoadIdle ==
    /\ loader = "none" /\ total = 0 /\ ld_pc = "idle" /\ run = 0 /\ store = EmptyDict
    /\ record_count = 0 /\ start_idx = 0 /\ retry_count = 0 /\ attempts = EmptyDict
    /\ acked = {} /\ failed = {} /\ http = NoRequest /\ run_requests = 0
    /\ rows_at_start = 0 /\ result = "none" /\ reported = "none"
    /\ log = <<>>

ProcIdle ==
    /\ file = <<>> /\ df = NoFrame /\ pc = "idle" /\ table_name = <<>>
    /\ schema = NoSchema /\ schema_error = FALSE

TmIdle ==
    /\ column_types = EmptyDict /\ tm_pc = "idle" /\ tm_dir = "none" /\ tm_idx = 0
    /\ has_zip_desc_files = FALSE /\ tm_df = <<>> /\ tm_columns = <<>>
    /\ tm_zip = "none" /\ tm_tried = <<>>

\* The frame has been read (processor.py:187-222).
InitProc ==
    /\ file \in FileSamples
    /\ df \in { fr \in FramesOf(file) : ValidFrame(file, fr) }
    /\ pc = "read"
    /\ table_name = <<>>
    /\ schema = NoSchema
    /\ schema_error = FALSE

\* processor.py:224-239: the frame must have rows; the labels are cleaned and
\* the table name is computed.
CleanNames ==
    /\ pc = "read"
    /\ IF df.nrows = 0
       THEN /\ pc' = "error"
            /\ UNCHANGED <<df, table_name>>
       ELSE /\ df' = [df EXCEPT !.columns =
                        [i \in 1..Len(df.columns) |->
                            [df.columns[i] EXCEPT !.name = CleanColumnName(df.columns[i].name)]]]
            /\ table_name' = GetTableName(file)
            /\ pc' = "clean_objects"
    /\ UNCHANGED <<file, schema, schema_error>>
    /\ UNCHANGED <<tmVars, loadVars, readVars, zipVars, createVars, inferVars, mainVars>>

\* processor.py:242-252.  df[col] of a label that several columns carry is a
\* DataFrame, whose apply hands each column to the lambda as a Series:
\* "None if pd.isna(x)" then raises ValueError and the file fails.
CleanObjectColumns ==
    /\ pc = "clean_objects"
    /\ IF \E i \in 1..Len(df.columns) :
              df.columns[i].dtype = DtObject /\ LabelCount(df.columns, df.columns[i].name) > 1
       THEN /\ pc' = "error"
            /\ df' = df
       ELSE /\ df' = [df EXCEPT !.columns =
                        [i \in 1..Len(df.columns) |->
                            IF IsFs220l(file) /\ df.columns[i].dtype \in {DtInt, DtFloat}
                            THEN [df.columns[i] EXCEPT !.dtype = DtObject, !.vals = {}]
                            ELSE df.columns[i]]]
            /\ pc' = "schema"
    /\ UNCHANGED <<file, table_name, schema, schema_error>>
    /\ UNCHANGED <<tmVars, loadVars, readVars, zipVars, createVars, inferVars, mainVars>>

\* processor.py:254-272: the schema, or the simplified schema when
\* _generate_schema raised.
GenerateSchemaStep ==
    /\ pc = "schema"
    /\ LET r == GenerateSchema(df.columns, table_name)
       IN  /\ schema' = IF r.raised THEN SimplifiedSchema(df.columns, table_name) ELSE r
           /\ schema_error' = r.raised
    /\ pc' = "create_table"
    /\ UNCHANGED <<file, df, table_name>>
    /\ UNCHANGED <<tmVars, loadVars, readVars, zipVars, createVars, inferVars, mainVars>>

NextSchema == CleanNames \/ CleanObjectColumns \/ GenerateSchemaStep

InitSchema == InitProc /\ TmIdle /\ LoadIdle /\ ReadIdle /\ ZipIdle /\ CreateIdle /\ InferIdle /\ MainIdle

SpecSchema == InitSchema /\ [][NextSchema]_vars

-----------------------------------------------------------------------------
(* SupabaseTableManager: load_column_type_definitions and                  *)
(* create_table_from_dataframe.                                            *)

InitTm ==
    /\ column_types = EmptyDict
    /\ tm_pc = "start"
    /\ tm_dir = "none"
    /\ tm_idx = 0
    /\ has_zip_desc_files = FALSE
    /\ tm_df = <<>>
    /\ tm_columns = <<>>
    /\ tm_zip = "none"
    /\ tm_tried = <<>>

\* A loader that never reads the main directory after the zip-specific one.
NeverFallsBack(dir, has_files) == FALSE

\* create_ncua_tables.py:76-81: after the files of the zip-specific directory,
\* the main directory is read if none of them existed.
FallsBackToMain(dir, has_files) == dir = "zip" /\ ~has_files

\* create_ncua_tables.py:55-88: which directory is read first.  zip is what
\* the file system holds: no zip file in input, a zip file without its
\* directory under output/extracted_data, or a zip file with its directory.
TmBegin ==
    /\ tm_pc = "start"
    /\ \E zip \in {"none", "nodir", "dir"} :
          /\ tm_dir' = IF zip = "dir" THEN "zip" ELSE "main"
          /\ tm_zip' = zip
    /\ tm_idx' = 1
    /\ tm_pc' = "load"
    /\ UNCHANGED <<column_types, has_zip_desc_files, tm_df, tm_columns, tm_tried>>
    /\ UNCHANGED <<procVars, loadVars, readVars, zipVars, createVars, inferVars, mainVars>>

\* One description file of the directory being read: it is missing, or it
\* holds the rows  content  (create_ncua_tables.py:71-81, 109-141).  After the
\* third file of the zip-specific directory the main directory is read if
\* none of the three existed.
TmLoadFile ==
    /\ tm_pc = "load"
    /\ \E exists \in BOOLEAN, content \in FileContents :
          /\ column_types' = IF exists THEN LoadColumnTypesFromFile(content, column_types)
                             ELSE column_types
          /\ has_zip_desc_files' = (has_zip_desc_files \/ (tm_dir = "zip" /\ exists))
          /\ tm_tried' = Append(tm_tried, [dir |-> tm_dir, exists |-> exists])
          /\ IF tm_idx < 3
             THEN /\ tm_idx' = tm_idx + 1
                  /\ UNCHANGED <<tm_dir, tm_pc>>
             ELSE IF FallsBackToMain(tm_dir, has_zip_desc_files')
             THEN /\ tm_dir' = "main"
                  /\ tm_idx' = 1
                  /\ UNCHANGED tm_pc
             ELSE /\ tm_pc' = "pin"
                  /\ UNCHANGED <<tm_dir, tm_idx>>
    /\ UNCHANGED <<tm_df, tm_columns, tm_zip>>
    /\ UNCHANGED <<procVars, loadVars, readVars, zipVars, createVars, inferVars, mainVars>>

\* create_ncua_tables.py:90-98
TmPinJoinKeys ==
    /\ tm_pc = "pin"
    /\ column_types' = PinJoinKeys(column_types)
    /\ tm_pc' = "loaded"
    /\ UNCHANGED <<tm_dir, tm_idx, has_zip_desc_files, tm_df, tm_columns, tm_zip, tm_tried>>
    /\ UNCHANGED <<procVars, loadVars, readVars, zipVars, createVars, inferVars, mainVars>>

\* create_table_from_dataframe(table_name, df) on a sample frame.
TmCreateTable ==
    /\ tm_pc = "loaded"
    /\ \E frame \in TmFrames :
          /\ tm_df' = frame
          /\ tm_columns' = CreateTableColumns(frame, column_types)
    /\ tm_pc' = "created"
    /\ UNCHANGED <<column_types, tm_dir, tm_idx, has_zip_desc_files, tm_zip, tm_tried>>
    /\ UNCHANGED <<procVars, loadVars, readVars, zipVars, createVars, inferVars, mainVars>>

NextTm == TmBegin \/ TmLoadFile \/ TmPinJoinKeys \/ TmCreateTable

InitCatalogue == InitTm /\ ProcIdle /\ LoadIdle /\ ReadIdle /\ ZipIdle /\ CreateIdle /\ InferIdle /\ MainIdle

SpecTm == InitCatalogue /\ [][NextTm]_vars


-----------------------------------------------------------------------------
(* Claims about schema resolution and the catalogue. *)

\* C1: every column whose name contains 'phone' or 'fax' (in any case) gets
\* the type TEXT from every schema generator: DataProcessor._generate_schema
\* (column i of the frame is column i + 1 of the statement, after id) and
\* create_table_from_dataframe.
C1_KeywordColumnsAreText ==
    /\ pc = "create_table" =>
          \A i \in 1..Len(df.columns) :
              HasKeyword(StrLower(df.columns[i].name)) => schema.columns[i + 1].type = "TEXT"
    /\ tm_pc = "created" =>
          \A i \in 1..Len(tm_df) :
              HasKeyword(StrLower(tm_df[i].name)) => tm_columns[i].type = "TEXT"

\* An int64 column with a value above 2^31 - 1 or below -2^31.
HasValueOutsideInt4(col) ==
    /\ col.dtype = DtInt
    /\ \E v \in col.vals : NumLess(Int4Max, v) \/ NumLess(v, Int4Min)

\* C2: an integer column that holds a value outside the signed 32-bit range
\* is never typed INTEGER, by _generate_schema or by get_sql_type_for_column
\* (catalogue mapping, join-key pin and dtype fallback).
C2_LargeIntegersNeverInteger ==
    /\ pc = "create_table" =>
          \A i \in 1..Len(df.columns) :
              HasValueOutsideInt4(df.columns[i]) => schema.columns[i + 1].type # "INTEGER"
    /\ tm_pc = "created" =>
          \A i \in 1..Len(tm_df) :
              HasValueOutsideInt4(tm_df[i]) => tm_columns[i].type # "INTEGER"

\* C3: the column identifiers of the table definition handed to
\* create_tables are pairwise distinct.
C3_IdentifiersDistinct ==
    pc = "create_table" =>
        \A i, j \in 1..Len(schema.columns) :
            schema.columns[i].name = schema.columns[j].name => i = j

\* The number of columns before column i whose cleaned name is that of column i.
EarlierOccurrences(columns, i) ==
    Cardinality({j \in 1..(i - 1) :
                    CleanColumnName(columns[j].name) = CleanColumnName(columns[i].name)})

\* C4: in the table definition the first column of a cleaned name n is called
\* n and the k-th later one n_k, in the order of the columns of the frame.
C4_DuplicatesSuffixedInOrder ==
    pc = "create_table" =>
        /\ Len(schema.columns) = Len(df.columns) + 1
        /\ \A i \in 1..Len(df.columns) :
              schema.columns[i + 1].name =
                  IF EarlierOccurrences(df.columns, i) = 0
                  THEN CleanColumnName(df.columns[i].name)
                  ELSE CleanColumnName(df.columns[i].name) \o <<"_">>
                           \o IntToStr(EarlierOccurrences(df.columns, i))

\* Catalogue.lookup: the declared type under a key, or "absent".
Lookup(types, key) ==
    IF key \in DOMAIN types THEN <<"declared", types[key]>> ELSE <<"absent", <<>>>>

\* C5: after the load, every field name of the catalogue looks up the same
\* declared type under its underscore spelling and under its hyphen spelling.
C5_SpellingsAgree ==
    tm_pc \in {"loaded", "created"} =>
        \A k \in DOMAIN column_types :
            Lookup(column_types, StrReplace(k, "-", "_"))
                = Lookup(column_types, StrReplace(k, "_", "-"))

JoinKeyAliases == {KeyCuNumber, KeyCuHyphen, KeyCuPlain}

\* C6: after a load from description files that declare the join key, every
\* join-key alias resolves to INTEGER, whatever type they declared for it and
\* whatever the dtype of the column.
C6_JoinKeyAliasesInteger ==
    (tm_pc \in {"loaded", "created"} /\ JoinKeyAliases \cap DOMAIN column_types # {}) =>
        \A a \in JoinKeyAliases, d \in {DtInt, DtFloat, DtObject} :
            GetSqlTypeForColumn(a, d, column_types) = "INTEGER"

-----------------------------------------------------------------------------
(* The load: the row-count check of DataProcessor._process_file and the    *)
(* chunked insert methods of the four loaders.                             *)

Loaders ==
    {"DatabaseManager", "NCUADataProcessor", "SupabaseUploader", "SupabaseDataInserter",
     "SupabaseAPIUploader", "SupabaseDirectSQL"}

\* batch_size of each insert method
DmBatchSize == 50
NcuaBatchSize == 100
UploaderBatchSize == 50
InserterBatchSize == 40
ApiUploaderBatchSize == 50
DirectSqlBatchSize == 50

BatchSize(l) ==
    CASE l = "DatabaseManager" -> DmBatchSize
      [] l = "NCUADataProcessor" -> NcuaBatchSize
      [] l = "SupabaseUploader" -> UploaderBatchSize
      [] l = "SupabaseDataInserter" -> InserterBatchSize
      [] l = "SupabaseAPIUploader" -> ApiUploaderBatchSize
      [] l = "SupabaseDirectSQL" -> DirectSqlBatchSize

\* Attempts per batch: "while retry_count < 3", "for retry in range(max_retries)".
MaxRetries == 3

\* SupabaseAPIUploader.upload_file_to_table and SupabaseDirectSQL.insert_csv_data
\* post each batch once, with no retry loop.
MaxAttempts(l) ==
    IF l \in {"SupabaseAPIUploader", "SupabaseDirectSQL"} THEN 1 ELSE MaxRetries

\* timeout=30 of DatabaseManager.insert_data; the other methods pass none.
DmTimeout == 30

\* The insert request of each method: only SupabaseDataInserter sends
\* Prefer: resolution=ignore-duplicates; only DatabaseManager passes a timeout
\* (0 stands for no timeout argument).
InsertRequest(l) ==
    [kind |-> "insert",
     ignore_duplicates |-> (l = "SupabaseDataInserter"),
     timeout |-> IF l = "DatabaseManager" THEN DmTimeout ELSE 0]

\* The GET of the row count: no timeout argument.
CountRequest == [kind |-> "count", ignore_duplicates |-> FALSE, timeout |-> 0]

\* What the remote side does with an insert request and what the caller sees
\* of it: the rows are stored or not, then a status arrives or the call raises
\* (timeout, connection error).
InsertReplies ==
    { [applied |-> TRUE, timeout |-> FALSE, status |-> 200],
      [applied |-> TRUE, timeout |-> FALSE, status |-> 201],
      [applied |-> TRUE, timeout |-> FALSE, status |-> 202],
      [applied |-> TRUE, timeout |-> FALSE, status |-> 204],
      [applied |-> TRUE, timeout |-> TRUE, status |-> 0],
      [applied |-> TRUE, timeout |-> FALSE, status |-> 502],
      [applied |-> FALSE, timeout |-> TRUE, status |-> 0],
      [applied |-> FALSE, timeout |-> FALSE, status |-> 302],
      [applied |-> FALSE, timeout |-> FALSE, status |-> 400],
      [applied |-> FALSE, timeout |-> FALSE, status |-> 500] }

\* The request was answered, with a status of 200..299.
Is2xx(reply) ==
    /\ ~reply.timeout
    /\ reply.status >= 200
    /\ reply.status <= 299

\* DatabaseManager.insert_data: 204 is success, a status >= 400 raises, any
\* other status is success; an exception of requests.post is a failure.
DmAttemptSucceeds(reply) ==
    /\ ~reply.timeout
    /\ (reply.status = 204 \/ ~(reply.status >= 400))

\* SupabaseDataInserter.insert_dataframe
InserterAttemptSucceeds(reply) ==
    /\ ~reply.timeout
    /\ reply.status \in {200, 201, 204}

\* NCUADataProcessor._insert_data, SupabaseUploader.insert_dataframe: the
\* supabase client's execute() raises unless the response is a 2xx.
ClientAttemptSucceeds(reply) ==
    /\ ~reply.timeout
    /\ reply.status >= 200
    /\ reply.status <= 299

\* SupabaseAPIUploader.upload_file_to_table, SupabaseDirectSQL.insert_csv_data:
\* "if response.status_code == 201"; an exception of requests.post propagates.
CreatedAttemptSucceeds(reply) ==
    /\ ~reply.timeout
    /\ reply.status = 201

AttemptSucceeds(l, reply) ==
    CASE l = "DatabaseManager" -> DmAttemptSucceeds(reply)
      [] l = "SupabaseDataInserter" -> InserterAttemptSucceeds(reply)
      [] l \in {"SupabaseAPIUploader", "SupabaseDirectSQL"} -> CreatedAttemptSucceeds(reply)
      [] l \in {"NCUADataProcessor", "SupabaseUploader"} -> ClientAttemptSucceeds(reply)

\* After the last failed attempt of a batch NCUADataProcessor._insert_data
\* and SupabaseUploader.insert_dataframe raise, as SupabaseAPIUploader and
\* SupabaseDirectSQL do after their only attempt; DatabaseManager.insert_data
\* and SupabaseDataInserter.insert_dataframe go on with the next batch.
ExhaustionRaises(l) ==
    l \in {"NCUADataProcessor", "SupabaseUploader", "SupabaseAPIUploader", "SupabaseDirectSQL"}

\* What the method returns when its batch loop ends: DatabaseManager returns
\* True, the others fall off the end of the function.
ReturnValue(l) ==
    IF l \in {"DatabaseManager", "SupabaseAPIUploader"} THEN "True" ELSE "None"

\* What the method does with an exception raised outside the retry loop:
\* DatabaseManager returns False, the others re-raise.
OuterExceptionResult(l) == IF l = "DatabaseManager" THEN "False" ELSE "raised"

\* A batch range whose end is not cut at the number of records.
BatchRangeUncut(l, start, n) == <<start + 1, start + BatchSize(l)>>

\* The rows of the batch records[start : start + batch_size], as the range
\* <<start_row, end_row>> of row numbers counted from 1.
BatchRange(l, start, n) ==
    <<start + 1, IF start + BatchSize(l) < n THEN start + BatchSize(l) ELSE n>>

\* range(0, n, batch_size)
BatchStarts(l, n) == {k \in 0..(n - 1) : k % BatchSize(l) = 0}

DictGet(d, k) == IF k \in DOMAIN d THEN d[k] ELSE 0

\* Rows in the remote table.  The records carry no id and the tables are
\* created with a generated id ("id SERIAL PRIMARY KEY", "id UUID PRIMARY
\* KEY DEFAULT gen_random_uuid()") as their only key, so every applied insert
\* stores all its rows: none conflicts with an earlier one, with or without
\* the ignore-duplicates preference.
RECURSIVE SumRows(_, _)
SumRows(st, ranges) ==
    IF ranges = {} THEN 0
    ELSE LET r == CHOOSE x \in ranges : TRUE
         IN  (r[2] - r[1] + 1) * st[r] + SumRows(st, ranges \ {r})

TableRows(st) == SumRows(st, DOMAIN st)

\* How many times row r of the extract is stored.
RECURSIVE SumCopies(_, _, _)
SumCopies(st, ranges, r) ==
    IF ranges = {} THEN 0
    ELSE LET x == CHOOSE y \in ranges : TRUE
         IN  (IF x[1] <= r /\ r <= x[2] THEN st[x] ELSE 0)
                 + SumCopies(st, ranges \ {x}, r)

Copies(st, r) == SumCopies(st, DOMAIN st, r)

\* The outcomes of the row-count request: a status with or without a
\* content-range header, or an exception, after which the supabase client is
\* asked and answers or raises too.
CountReplies ==
    { [raised |-> FALSE, status |-> 200, content_range |-> TRUE, fallback_ok |-> FALSE],
      [raised |-> FALSE, status |-> 200, content_range |-> FALSE, fallback_ok |-> FALSE],
      [raised |-> FALSE, status |-> 206, content_range |-> TRUE, fallback_ok |-> FALSE],
      [raised |-> FALSE, status |-> 500, content_range |-> FALSE, fallback_ok |-> FALSE],
      [raised |-> TRUE, status |-> 0, content_range |-> FALSE, fallback_ok |-> TRUE],
      [raised |-> TRUE, status |-> 0, content_range |-> FALSE, fallback_ok |-> FALSE] }

\* record_count, for a table that holds  rows  rows.
RecordCount(reply, rows) ==
    IF reply.raised
    THEN (IF reply.fallback_ok THEN rows ELSE 0)
    ELSE IF reply.status = 200 /\ reply.content_range THEN rows ELSE 0

\* A row-count test that lets a table holding a single row be loaded again.
SkipsInsertionMoreThanOne(count) == count > 1

\* "if record_count > 0": the insertion is skipped.
SkipsInsertion(count) == count > 0

\* The sizes of the extracts: the last batch holds one row or is full.
\* _process_file rejects an empty frame before the load; the other loaders
\* accept one.
TotalSamples(l) ==
    { (c - 1) * BatchSize(l) + r : c \in 1..MaxChunks, r \in {1, BatchSize(l)} }
        \cup (IF l = "DatabaseManager" THEN {} ELSE {0})

InitLoad ==
    /\ loader \in Loaders
    /\ total \in TotalSamples(loader)
    /\ ld_pc = IF loader = "DatabaseManager" THEN "count" ELSE "insert"
    /\ run = 1
    /\ store = EmptyDict
    /\ record_count = 0
    /\ start_idx = 0
    /\ retry_count = 0
    /\ attempts = EmptyDict
    /\ acked = {}
    /\ failed = {}
    /\ http = NoRequest
    /\ run_requests = 0
    /\ rows_at_start = 0
    /\ result = "none"
    /\ reported = "none"
    /\ log = <<>>

\* The row count of _process_file: the GET, the fallback to the client.
CountRows ==
    /\ ld_pc = "count"
    /\ \E reply \in CountReplies :
          record_count' = RecordCount(reply, TableRows(store))
    /\ http' = CountRequest
    /\ ld_pc' = "decide"
    /\ UNCHANGED <<loader, total, run, store, start_idx, retry_count, attempts, acked, failed,
                   run_requests, rows_at_start, result, reported, log>>
    /\ UNCHANGED <<procVars, tmVars, readVars, zipVars, createVars, inferVars, mainVars>>

\* "if record_count > 0: ... skipping insertion  else: insert_data(...)"
Decide ==
    /\ ld_pc = "decide"
    /\ IF SkipsInsertion(record_count)
       THEN /\ reported' = "skipped"
            /\ ld_pc' = "done"
       ELSE /\ reported' = reported
            /\ ld_pc' = "insert"
    /\ UNCHANGED <<loader, total, run, store, record_count, start_idx, retry_count, attempts,
                   acked, failed, http, run_requests, rows_at_start, result, log>>
    /\ UNCHANGED <<procVars, tmVars, readVars, zipVars, createVars, inferVars, mainVars>>

\* The insert method up to its first batch: the records are built (which may
\* raise), an empty extract ends the method.
BeginInsert ==
    /\ ld_pc = "insert"
    /\ start_idx' = 0
    /\ retry_count' = 0
    /\ \E records_raise \in BOOLEAN :
          IF records_raise
          THEN /\ result' = OuterExceptionResult(loader)
               /\ ld_pc' = IF loader = "DatabaseManager" THEN "returned" ELSE "raised"
          ELSE IF total = 0
          THEN /\ result' = "None"
               /\ ld_pc' = "returned"
          ELSE /\ result' = result
               /\ ld_pc' = "submit"
    /\ UNCHANGED <<loader, total, run, store, record_count, attempts, acked, failed, http,
                   run_requests, rows_at_start, reported, log>>
    /\ UNCHANGED <<procVars, tmVars, readVars, zipVars, createVars, inferVars, mainVars>>

\* One attempt of the current batch, and what the retry loop and the batch
\* loop do after it.
Submit ==
    /\ ld_pc = "submit"
    /\ \E reply \in InsertReplies :
          LET range == BatchRange(loader, start_idx, total)
              ok == AttemptSucceeds(loader, reply)
              exhausted == ~ok /\ retry_count + 1 = MaxAttempts(loader)
              last == start_idx + BatchSize(loader) >= total
          IN  /\ store' = IF reply.applied
                          THEN DictSet(store, range, DictGet(store, range) + 1)
                          ELSE store
              /\ attempts' = DictSet(attempts, start_idx, DictGet(attempts, start_idx) + 1)
              /\ log' = Append(log, [batch |-> start_idx, rows |-> range,
                                     status_2xx |-> Is2xx(reply), ok |-> ok])
              /\ acked' = IF ok THEN acked \cup {start_idx} ELSE acked
              /\ failed' = IF exhausted THEN failed \cup {start_idx} ELSE failed
              /\ IF exhausted /\ ExhaustionRaises(loader)
                 THEN /\ ld_pc' = "raised"
                      /\ result' = "raised"
                      /\ retry_count' = retry_count + 1
                      /\ start_idx' = start_idx
                 ELSE IF ok \/ exhausted
                 THEN /\ retry_count' = 0
                      /\ start_idx' = start_idx + BatchSize(loader)
                      /\ ld_pc' = IF last THEN "returned" ELSE "submit"
                      /\ result' = IF last THEN ReturnValue(loader) ELSE result
                 ELSE /\ retry_count' = retry_count + 1
                      /\ start_idx' = start_idx
                      /\ ld_pc' = ld_pc
                      /\ result' = result
    /\ http' = InsertRequest(loader)
    /\ run_requests' = run_requests + 1
    /\ UNCHANGED <<loader, total, run, record_count, rows_at_start, reported>>
    /\ UNCHANGED <<procVars, tmVars, readVars, zipVars, createVars, inferVars, mainVars>>

\* What _process_file prints after insert_data returned.
Report ==
    /\ ld_pc = "returned"
    /\ loader = "DatabaseManager"
    /\ reported' = IF result = "True" THEN "complete" ELSE "partial"
    /\ ld_pc' = "done"
    /\ UNCHANGED <<loader, total, run, store, record_count, start_idx, retry_count, attempts,
                   acked, failed, http, run_requests, rows_at_start, result, log>>
    /\ UNCHANGED <<procVars, tmVars, readVars, zipVars, createVars, inferVars, mainVars>>

\* The row count _process_file prints with "Data insertion complete": len(df).
RowsReported(rep, n) == IF rep = "complete" THEN n ELSE 0

\* The table at the start of a later run: the rows the earlier runs stored
\* are not told apart any more and are kept as one range of that many rows.
EarlierRows(n) == IF n = 0 THEN EmptyDict ELSE DictSet(EmptyDict, <<1, n>>, 1)

\* The same extract is handed to _process_file again by a later run.
NextRun ==
    /\ ld_pc = "done"
    /\ run < MaxRuns
    /\ run' = run + 1
    /\ ld_pc' = "count"
    /\ rows_at_start' = TableRows(store)
    /\ record_count' = 0
    /\ start_idx' = 0
    /\ retry_count' = 0
    /\ attempts' = EmptyDict
    /\ acked' = {}
    /\ failed' = {}
    /\ run_requests' = 0
    /\ result' = "none"
    /\ reported' = "none"
    /\ log' = <<>>
    /\ store' = EarlierRows(TableRows(store))
    /\ http' = NoRequest
    /\ UNCHANGED <<loader, total>>
    /\ UNCHANGED <<procVars, tmVars, readVars, zipVars, createVars, inferVars, mainVars>>

NextLoad == CountRows \/ Decide \/ BeginInsert \/ Submit \/ Report \/ NextRun

InitLoadSpec == InitLoad /\ ProcIdle /\ TmIdle /\ ReadIdle /\ ZipIdle /\ CreateIdle /\ InferIdle /\ MainIdle

SpecLoad == InitLoadSpec /\ [][NextLoad]_vars

-----------------------------------------------------------------------------
(* The readers: NCUADataProcessor._read_data_file,                         *)
(* SupabaseDataInserter.read_data_file and the read step of                *)
(* DataProcessor._process_file.                                            *)

Readers == {"NCUADataProcessor", "SupabaseDataInserter", "DataProcessor"}

\* encodings and separators of the two read_data_file methods, in their order
Encodings == <<"utf-8", "latin1", "cp1252", "ISO-8859-1">>
Separators == <<",", "tab", "|", ";">>

\* Whether the bytes of the file decode: latin1 (which ISO-8859-1 names too)
\* decodes every byte, utf-8 and cp1252 do not.
Decodes(f, enc) ==
    CASE enc = "utf-8" -> f.utf8
      [] enc = "cp1252" -> f.cp1252
      [] enc \in {"latin1", "ISO-8859-1"} -> TRUE

\* pd.read_csv(file_path, encoding=enc, sep=sep): the exception it raises, or
\* the number of columns of the frame.  f.cols[sep] = 0 stands for a file the
\* parser rejects with that separator.
ReadCsv(f, enc, sep) ==
    IF ~Decodes(f, enc) THEN [raised |-> "UnicodeDecodeError", ncols |-> 0]
    ELSE IF f.cols[sep] = 0 THEN [raised |-> "ParserError", ncols |-> 0]
    ELSE [raised |-> "none", ncols |-> f.cols[sep]]

\* The files handed to the readers.
ReadFileSamples ==
    { [utf8 |-> u, cp1252 |-> c, cols |-> k] :
        u \in BOOLEAN, c \in BOOLEAN,
        k \in [{Separators[j] : j \in 1..Len(Separators)} -> 0..MaxReadCols] }

InitRead ==
    /\ reader \in Readers
    /\ rd_file \in ReadFileSamples
    /\ rd_pc = IF reader = "DataProcessor" THEN "csv_utf8" ELSE "loop"
    /\ rd_enc = 1
    /\ rd_sep = 1
    /\ rd_result = NoResult

\* One pass of the inner loop of _read_data_file / read_data_file: a frame
\* of more than one column is returned, anything else goes on with the next
\* separator, then the next encoding; after the last pair the method returns
\* None.
ReadTry ==
    /\ rd_pc = "loop"
    /\ LET r == ReadCsv(rd_file, Encodings[rd_enc], Separators[rd_sep])
       IN  IF r.raised = "none" /\ r.ncols > 1
           THEN /\ rd_result' = [encoding |-> Encodings[rd_enc], sep |-> Separators[rd_sep],
                                 ncols |-> r.ncols]
                /\ rd_pc' = "returned"
                /\ UNCHANGED <<rd_enc, rd_sep>>
           ELSE /\ rd_result' = rd_result
                /\ IF rd_sep < Len(Separators)
                   THEN /\ rd_sep' = rd_sep + 1
                        /\ UNCHANGED <<rd_enc, rd_pc>>
                   ELSE IF rd_enc < Len(Encodings)
                   THEN /\ rd_enc' = rd_enc + 1
                        /\ rd_sep' = 1
                        /\ rd_pc' = rd_pc
                   ELSE /\ rd_pc' = "failed"
                        /\ UNCHANGED <<rd_enc, rd_sep>>
    /\ UNCHANGED <<reader, rd_file>>
    /\ UNCHANGED <<procVars, tmVars, loadVars, zipVars, createVars, inferVars, mainVars>>

\* The read_csv call of each step of the chain of _process_file.
ChainEncoding(p) == IF p \in {"csv_utf8", "tsv_utf8"} THEN "utf-8" ELSE "latin1"
ChainSeparator(p) == IF p \in {"csv_utf8", "csv_latin1"} THEN "," ELSE "tab"

\* Where the chain goes when the call of step p raised: the first call hands
\* on a UnicodeDecodeError only, the later ones every exception; after the
\* last one _process_file raises.
ChainNext(p, raised) ==
    CASE p = "csv_utf8" -> IF raised = "UnicodeDecodeError" THEN "csv_latin1" ELSE "failed"
      [] p = "csv_latin1" -> "tsv_utf8"
      [] p = "tsv_utf8" -> "tsv_latin1"
      [] p = "tsv_latin1" -> "failed"

\* One read_csv call of the read step of _process_file: whatever frame it
\* returns is taken.
ProcessFileReadTry ==
    /\ rd_pc \in {"csv_utf8", "csv_latin1", "tsv_utf8", "tsv_latin1"}
    /\ LET r == ReadCsv(rd_file, ChainEncoding(rd_pc), ChainSeparator(rd_pc))
       IN  IF r.raised = "none"
           THEN /\ rd_result' = [encoding |-> ChainEncoding(rd_pc),
                                 sep |-> ChainSeparator(rd_pc), ncols |-> r.ncols]
                /\ rd_pc' = "returned"
           ELSE /\ rd_result' = rd_result
                /\ rd_pc' = ChainNext(rd_pc, r.raised)
    /\ UNCHANGED <<reader, rd_file, rd_enc, rd_sep>>
    /\ UNCHANGED <<procVars, tmVars, loadVars, zipVars, createVars, inferVars, mainVars>>

NextRead == ReadTry \/ ProcessFileReadTry

InitReadSpec == InitRead /\ ProcIdle /\ TmIdle /\ LoadIdle /\ ZipIdle /\ CreateIdle /\ InferIdle /\ MainIdle

SpecRead == InitReadSpec /\ [][NextRead]_vars

-----------------------------------------------------------------------------
(* The run over the extracts of a ZIP: DataProcessor._process_zip and      *)
(* NCUADataProcessor.process_zip_file.                                     *)

ZipProcessors == {"DataProcessor", "NCUADataProcessor"}

\* What the processing of an extract runs into: nothing, a file no reader
\* can parse, a file without data rows, a table creation that fails, an
\* insertion that fails.
ExtractSamples == {"ok", "unreadable", "empty", "create_error", "insert_error"}

\* DataProcessor._process_file(file, year, month), as _process_zip sees it:
\* it raises for a file it cannot read and for a file without rows;
\* create_tables and insert_data return False instead of raising.
ProcessFileRaises(e) == e \in {"unreadable", "empty"}

\* The body of the loop of process_zip_file for one extract: a frame that is
\* None or empty is passed over; _create_table and _insert_data raise.
NcuaPassesOver(e) == e \in {"unreadable", "empty"}
NcuaRaises(e) == e \in {"create_error", "insert_error"}

RECURSIVE SeqsUpTo(_, _)
SeqsUpTo(S, n) ==
    IF n = 0 THEN {<<>>}
    ELSE LET shorter == SeqsUpTo(S, n - 1)
         IN  shorter \cup {Append(q, x) : q \in {t \in shorter : Len(t) = n - 1}, x \in S}

\* The method was called for a ZIP of the input directory; temp_extract may
\* be left over from an earlier run.
InitZip ==
    /\ zip_processor \in ZipProcessors
    /\ extracts \in (SeqsUpTo(ExtractSamples, MaxExtracts) \ {<<>>})
    /\ zip_idx = 1
    /\ zip_pc = "begin"
    /\ outcomes = <<>>
    /\ success_count = 0
    /\ error_count = 0
    /\ zip_has_period \in BOOLEAN
    /\ temp_dir_exists \in (IF zip_processor = "DataProcessor" THEN BOOLEAN ELSE {FALSE})
    /\ zip_in_input = TRUE

\* A _process_zip that moves the ZIP whatever the count.
MovesZipAlways(processor, count) == TRUE

\* processor.py:154 and process_ncua_data.py:250-252: _process_zip moves the
\* ZIP if an extract was processed, process_zip_file moves it always.
MovesZip(processor, count) == processor = "NCUADataProcessor" \/ count > 0

\* processor.py:110-130 and 162-171: without a period in the name the method
\* returns at once; otherwise temp_extract is made anew and the ZIP is
\* extracted; a ZIP that cannot be extracted ends the method, the finally
\* clause removing the directory.  process_ncua_data.py:211-226: the period
\* is optional, the directory is a TemporaryDirectory, and the exception of
\* the extraction leaves the method.
ZipBegin ==
    /\ zip_pc = "begin"
    /\ IF zip_processor = "DataProcessor" /\ ~zip_has_period
       THEN /\ zip_pc' = "no_period"
            /\ UNCHANGED temp_dir_exists
       ELSE \E extractable \in BOOLEAN :
               IF extractable
               THEN zip_pc' = "loop" /\ temp_dir_exists' = TRUE
               ELSE zip_pc' = "fatal" /\ temp_dir_exists' = FALSE
    /\ UNCHANGED <<zip_processor, extracts, zip_idx, outcomes, success_count, error_count,
                   zip_has_period, zip_in_input>>
    /\ UNCHANGED <<procVars, tmVars, loadVars, readVars, createVars, inferVars, mainVars>>

\* One pass of the loop of _process_zip: the exception of _process_file is
\* caught, counted and the loop goes on.
ProcessZipStep ==
    /\ zip_pc = "loop"
    /\ zip_processor = "DataProcessor"
    /\ zip_idx <= Len(extracts)
    /\ IF ProcessFileRaises(extracts[zip_idx])
       THEN /\ error_count' = error_count + 1
            /\ outcomes' = Append(outcomes, "skipped")
            /\ UNCHANGED success_count
       ELSE /\ success_count' = success_count + 1
            /\ outcomes' = Append(outcomes, "processed")
            /\ UNCHANGED error_count
    /\ zip_idx' = zip_idx + 1
    /\ UNCHANGED <<zip_processor, extracts, zip_pc, zip_has_period, temp_dir_exists,
                   zip_in_input>>
    /\ UNCHANGED <<procVars, tmVars, loadVars, readVars, createVars, inferVars, mainVars>>

\* One pass of the loop of process_zip_file: no exception is caught, so a
\* failing _create_table or _insert_data ends the method.
NcuaZipStep ==
    /\ zip_pc = "loop"
    /\ zip_processor = "NCUADataProcessor"
    /\ zip_idx <= Len(extracts)
    /\ IF NcuaRaises(extracts[zip_idx])
       THEN /\ zip_pc' = "aborted"
            /\ outcomes' = Append(outcomes, "raised")
            /\ temp_dir_exists' = FALSE
            /\ UNCHANGED <<zip_idx, success_count>>
       ELSE /\ zip_pc' = zip_pc
            /\ UNCHANGED temp_dir_exists
            /\ zip_idx' = zip_idx + 1
            /\ outcomes' = Append(outcomes,
                   IF NcuaPassesOver(extracts[zip_idx]) THEN "skipped" ELSE "processed")
            /\ success_count' = IF NcuaPassesOver(extracts[zip_idx])
                                THEN success_count ELSE success_count + 1
    /\ UNCHANGED <<zip_processor, extracts, error_count, zip_has_period, zip_in_input>>
    /\ UNCHANGED <<procVars, tmVars, loadVars, readVars, createVars, inferVars, mainVars>>

\* After the loop: the ZIP is moved to the output directory (by _process_zip
\* only if an extract was processed), the temporary directory is removed and
\* the method returns.
ZipFinish ==
    /\ zip_pc = "loop"
    /\ zip_idx > Len(extracts)
    /\ zip_pc' = IF MovesZip(zip_processor, success_count)
                 THEN "finished" ELSE "finished_unmoved"
    /\ zip_in_input' = ~MovesZip(zip_processor, success_count)
    /\ temp_dir_exists' = FALSE
    /\ UNCHANGED <<zip_processor, extracts, zip_idx, outcomes, success_count, error_count,
                   zip_has_period>>
    /\ UNCHANGED <<procVars, tmVars, loadVars, readVars, createVars, inferVars, mainVars>>

NextZip == ZipBegin \/ ProcessZipStep \/ NcuaZipStep \/ ZipFinish

InitZipSpec == InitZip /\ ProcIdle /\ TmIdle /\ LoadIdle /\ ReadIdle /\ CreateIdle /\ InferIdle /\ MainIdle

SpecZip == InitZipSpec /\ [][NextZip]_vars

-----------------------------------------------------------------------------
(* Table creation: DatabaseManager.create_tables and                       *)
(* SupabaseTableManager.create_fs220d_special_table, against one remote    *)
(* table.                                                                  *)

TableCreators == {"DatabaseManager", "SupabaseTableManager"}

\* The characters of an SQL type of the schema record.
TypeChars(type) ==
    CASE type = "TEXT" -> <<"T","E","X","T">>
      [] type = "INTEGER" -> <<"I","N","T","E","G","E","R">>
      [] type = "NUMERIC" -> <<"N","U","M","E","R","I","C">>
      [] type = "TIMESTAMP" -> <<"T","I","M","E","S","T","A","M","P">>
      [] type = "SERIAL PRIMARY KEY" -> <<"S","E","R","I","A","L"," ","P","R","I","M","A","R","Y"," ","K","E","Y">>
      [] OTHER -> <<>>

\* ', '.join(parts)
RECURSIVE JoinWith(_, _)
JoinWith(sep, parts) ==
    IF Len(parts) = 0 THEN <<>>
    ELSE IF Len(parts) = 1 THEN parts[1]
    ELSE parts[1] \o sep \o JoinWith(sep, Tail(parts))

\* The text of a table definition (processor.py:435 and 265-269):
\* CREATE TABLE IF NOT EXISTS t (id SERIAL PRIMARY KEY, c1 T1, ...);
SchemaText(sch) ==
    <<"C","R","E","A","T","E"," ","T","A","B","L","E"," ","I","F"," ","N","O","T"," ","E","X","I","S","T","S"," ">> \o sch.table \o <<" ","(">>
        \o JoinWith(<<","," ">>, [i \in 1..Len(sch.columns) |->
                               sch.columns[i].name \o <<" ">> \o TypeChars(sch.columns[i].type)])
        \o <<")",";">>

\* str.split(c) for a one-character separator
RECURSIVE SplitOn(_, _)
SplitOn(s, c) ==
    IF \A i \in 1..Len(s) : s[i] # c THEN <<s>>
    ELSE LET k == CHOOSE i \in 1..Len(s) : s[i] = c /\ \A j \in 1..(i - 1) : s[j] # c
         IN  <<SubSeq(s, 1, k - 1)>> \o SplitOn(SubSeq(s, k + 1, Len(s)), c)

\* str.replace(sub, "")
RECURSIVE RemoveAll(_, _)
RemoveAll(s, sub) ==
    IF Len(s) < Len(sub) THEN s
    ELSE IF SubSeq(s, 1, Len(sub)) = sub
         THEN RemoveAll(SubSeq(s, Len(sub) + 1, Len(s)), sub)
         ELSE <<s[1]>> \o RemoveAll(Tail(s), sub)

\* str.split(): the words between runs of white space
RECURSIVE SplitWords(_)
SplitWords(s) ==
    LET t == StrStrip(s)
    IN  IF t = <<>> THEN <<>>
        ELSE IF \A i \in 1..Len(t) : ~IsSpace(t[i]) THEN <<t>>
        ELSE LET k == CHOOSE i \in 1..Len(t) :
                          IsSpace(t[i]) /\ \A j \in 1..(i - 1) : ~IsSpace(t[j])
             IN  <<SubSeq(t, 1, k - 1)>> \o SplitWords(SubSeq(t, k + 1, Len(t)))

IdDefinition == <<"i","d"," ","S","E","R","I","A","L"," ","P","R","I","M","A","R","Y"," ","K","E","Y">>

\* database.py:117: "(" in schema and ")" in schema
HasParentheses(text) == StrContains(<<"(">>, text) /\ StrContains(<<")">>, text)

\* database.py:118-121: the text between the first "(" and the next ")",
\* without the definition of the key.
ColsStr(text) ==
    RemoveAll(RemoveAll(SplitOn(SplitOn(text, "(")[2], ")")[1],
                        IdDefinition \o <<",">>),
              IdDefinition)

\* database.py:126: [c.strip() for c in cols_str.split(",") if c.strip()]
ColDefs(text) ==
    LET pieces == SplitOn(ColsStr(text), ",")
        stripped == [i \in 1..Len(pieces) |-> StrStrip(pieces[i])]
    IN  SelectSeq(stripped, LAMBDA c : c # <<>>)

\* database.py:127-132: a definition of at least two words whose first word
\* is not id gets an ALTER TABLE.
GetsAlter(col_def) ==
    /\ Len(SplitWords(col_def)) >= 2
    /\ StrLower(StrStrip(SplitWords(col_def)[1])) # <<"i","d">>

\* database.py:128-129
ColName(col_def) == StrStrip(SplitWords(col_def)[1])
ColType(col_def) == StrStrip(JoinWith(<<" ">>, Tail(SplitWords(col_def))))

\* What the store can do with a statement: a column name that is not an
\* identifier, or that repeats another one, makes it reject the statement.
IsIdentifier(name) == name # <<>> /\ \A i \in 1..Len(name) : IsAlnumOrUnderscore(name[i])

Acceptable(columns) ==
    /\ \A i \in 1..Len(columns) : IsIdentifier(columns[i])
    /\ \A i, j \in 1..Len(columns) : columns[i] = columns[j] => i = j

\* Status of the answer to a statement the store can accept: applied and
\* answered 200 or 204, or refused with 400, or no answer in time.
TimedOut == 0

DdlReplies(acceptable) ==
    IF acceptable THEN {200, 204, 400, TimedOut} ELSE {400, TimedOut}

\* The remote table after CREATE TABLE [IF NOT EXISTS] with these columns was
\* applied: an existing table is left as it is.
AfterCreate(tbl, columns) ==
    IF tbl.exists THEN tbl
    ELSE [exists |-> TRUE, rows |-> 0, columns |-> {columns[i] : i \in 1..Len(columns)}]

\* ... after ALTER TABLE ADD COLUMN IF NOT EXISTS was applied
AfterAddColumn(tbl, column) ==
    IF tbl.exists THEN [tbl EXCEPT !.columns = @ \cup {column}] ELSE tbl

\* ... after DROP TABLE IF EXISTS was applied
AfterDrop(tbl) == NoTable

\* Names of the columns of a schema record
ColumnNames(sch) == [i \in 1..Len(sch.columns) |-> sch.columns[i].name]

Statement(kind, columns, type, status) ==
    [kind |-> kind, columns |-> columns, type |-> type, status |-> status]

\* Column labels of the extract whose table is created.
CtNameSamples == { <<"a">>, <<"b">>, <<"n","(","x",")">> }

CtColumnSamples ==
    { [name |-> n, dtype |-> d, vals |-> IF d = DtInt THEN {Num(0, 0)} ELSE {}] :
        n \in CtNameSamples, d \in {DtInt, DtObject} }

CtFrames ==
    { c \in UNION { [1..k -> CtColumnSamples] : k \in 1..MaxCtCols } : DistinctLabels(c) }

Fs220dTable == <<"f","s","2","2","0","d","_","2","0","2","4","_","0","3">>

\* The remote table before the creation: absent, or there with a row.
TableSamples ==
    { NoTable, [exists |-> TRUE, rows |-> 1, columns |-> {<<"i","d">>, <<"a">>}] }

InitCreate ==
    /\ creator \in TableCreators
    /\ \E c \in CtFrames :
          ct_schema = IF creator = "DatabaseManager"
                      THEN GenerateSchema(c, GetTableName(<<"F","O","I","C","U">>))
                      ELSE \* create_ncua_tables.py:258-279: every column TEXT
                           [raised |-> FALSE, stmt |-> "CREATE TABLE", table |-> Fs220dTable,
                            columns |-> <<[name |-> <<"i","d">>, type |-> "UUID PRIMARY KEY"]>> \o
                                [i \in 1..Len(c) |->
                                    [name |-> TmCleanColumnName(c[i].name), type |-> "TEXT"]]]
    /\ remote \in TableSamples
    /\ remote_before = remote
    /\ ct_pc = IF creator = "DatabaseManager" THEN "head" ELSE "drop"
    /\ ct_sent = <<>>
    /\ ct_idx = 0
    /\ ct_success_count = 0
    /\ ct_error_count = 0
    /\ ct_result = "none"
    /\ ct_printed = "none"

CtReturn(value) ==
    /\ ct_result' = value
    /\ ct_pc' = "returned"

\* database.py:42-66: the HEAD request; 200 ends the method, anything else
\* (another status, an exception) goes on to the next check.
CheckHead ==
    /\ ct_pc = "head"
    /\ \E answered \in BOOLEAN :
          IF remote.exists /\ answered
          THEN CtReturn("None")
          ELSE ct_pc' = "select" /\ UNCHANGED ct_result
    /\ UNCHANGED <<creator, ct_schema, remote, remote_before, ct_sent, ct_idx,
                   ct_success_count, ct_error_count, ct_printed>>
    /\ UNCHANGED <<procVars, tmVars, loadVars, readVars, zipVars, inferVars, mainVars>>

\* database.py:70-76 and 166-174: the select through the client; it
\* succeeds on a table that exists, raises 'relation does not exist' on one
\* that does not, and any other exception makes create_tables return False.
CheckSelect ==
    /\ ct_pc = "select"
    /\ \E answered \in BOOLEAN :
          IF ~answered THEN CtReturn("False")
          ELSE IF remote.exists THEN CtReturn("None")
          ELSE ct_pc' = "create" /\ UNCHANGED ct_result
    /\ UNCHANGED <<creator, ct_schema, remote, remote_before, ct_sent, ct_idx,
                   ct_success_count, ct_error_count, ct_printed>>
    /\ UNCHANGED <<procVars, tmVars, loadVars, readVars, zipVars, inferVars, mainVars>>

\* database.py:86-99 and 156-165: the full statement.
PostSchema ==
    /\ ct_pc = "create"
    /\ \E status \in DdlReplies(Acceptable(ColumnNames(ct_schema))) :
          /\ ct_sent' = Append(ct_sent,
                 Statement("CREATE TABLE IF NOT EXISTS", ColumnNames(ct_schema), <<>>, status))
          /\ remote' = IF status \in {200, 204}
                       THEN AfterCreate(remote, ColumnNames(ct_schema)) ELSE remote
          /\ IF status = TimedOut THEN CtReturn("False")
             ELSE IF status = 204 THEN CtReturn("None")
             ELSE IF status >= 400 THEN ct_pc' = "simple" /\ UNCHANGED ct_result
             ELSE CtReturn("None")
    /\ UNCHANGED <<creator, ct_schema, remote_before, ct_idx,
                   ct_success_count, ct_error_count, ct_printed>>
    /\ UNCHANGED <<procVars, tmVars, loadVars, readVars, zipVars, inferVars, mainVars>>

\* database.py:101-125: the table with the key only.
PostSimpleSchema ==
    /\ ct_pc = "simple"
    /\ \E status \in DdlReplies(TRUE) :
          /\ ct_sent' = Append(ct_sent,
                 Statement("CREATE TABLE IF NOT EXISTS", <<IdColumn.name>>, <<>>, status))
          /\ remote' = IF status \in {200, 204}
                       THEN AfterCreate(remote, <<IdColumn.name>>) ELSE remote
          /\ IF status = TimedOut \/ status >= 400 THEN CtReturn("False") /\ UNCHANGED ct_idx
             ELSE IF HasParentheses(SchemaText(ct_schema))
                  THEN ct_pc' = "alter" /\ ct_idx' = 1 /\ UNCHANGED ct_result
                  ELSE CtReturn("None") /\ UNCHANGED ct_idx
    /\ UNCHANGED <<creator, ct_schema, remote_before,
                   ct_success_count, ct_error_count, ct_printed>>
    /\ UNCHANGED <<procVars, tmVars, loadVars, readVars, zipVars, inferVars, mainVars>>

\* database.py:126-150: one pass of the loop over the column definitions.
AddColumn ==
    /\ ct_pc = "alter"
    /\ ct_idx <= Len(ColDefs(SchemaText(ct_schema)))
    /\ LET col_def == ColDefs(SchemaText(ct_schema))[ct_idx]
       IN  IF GetsAlter(col_def)
           THEN \E status \in DdlReplies(IsIdentifier(ColName(col_def))) :
                   /\ ct_sent' = Append(ct_sent,
                          Statement("ADD COLUMN IF NOT EXISTS", <<ColName(col_def)>>,
                                    ColType(col_def), status))
                   /\ remote' = IF status \in {200, 204}
                                THEN AfterAddColumn(remote, ColName(col_def)) ELSE remote
                   /\ IF status # TimedOut /\ status < 400
                      THEN ct_success_count' = ct_success_count + 1 /\ UNCHANGED ct_error_count
                      ELSE ct_error_count' = ct_error_count + 1 /\ UNCHANGED ct_success_count
           ELSE UNCHANGED <<ct_sent, remote, ct_success_count, ct_error_count>>
    /\ ct_idx' = ct_idx + 1
    /\ UNCHANGED <<creator, ct_schema, remote_before, ct_pc, ct_result, ct_printed>>
    /\ UNCHANGED <<procVars, tmVars, loadVars, readVars, zipVars, inferVars, mainVars>>

\* database.py:152-155: with a column added the method returns; without one
\* it leaves the if, the handlers and the try, and returns None as well.
AfterColumns ==
    /\ ct_pc = "alter"
    /\ ct_idx > Len(ColDefs(SchemaText(ct_schema)))
    /\ IF ct_success_count > 0 THEN CtReturn("None") ELSE CtReturn("None")
    /\ UNCHANGED <<creator, ct_schema, remote, remote_before, ct_sent, ct_idx,
                   ct_success_count, ct_error_count, ct_printed>>
    /\ UNCHANGED <<procVars, tmVars, loadVars, readVars, zipVars, inferVars, mainVars>>

\* processor.py:275-279: what _process_file prints about the creation.
PrintCreation ==
    /\ ct_pc = "returned"
    /\ creator = "DatabaseManager"
    /\ ct_printed' = IF ct_result = "False" THEN "Warning" ELSE "Created table"
    /\ ct_pc' = "done"
    /\ UNCHANGED <<creator, ct_schema, remote, remote_before, ct_sent, ct_idx,
                   ct_success_count, ct_error_count, ct_result>>
    /\ UNCHANGED <<procVars, tmVars, loadVars, readVars, zipVars, inferVars, mainVars>>

\* execute_sql (create_ncua_tables.py:296-313): True for 200 and 204.
ExecuteSqlResult(status) == status \in {200, 204}

\* create_ncua_tables.py:235-248: without the sample file the method returns
\* False; otherwise it drops the table.
DropTable ==
    /\ ct_pc = "drop"
    /\ \E sample_file_exists \in BOOLEAN :
          IF ~sample_file_exists
          THEN CtReturn("False") /\ UNCHANGED <<ct_sent, remote>>
          ELSE \E status \in DdlReplies(TRUE) :
                  /\ ct_sent' = Append(ct_sent, Statement("DROP TABLE IF EXISTS", <<>>, <<>>, status))
                  /\ remote' = IF status \in {200, 204} THEN AfterDrop(remote) ELSE remote
                  /\ IF ExecuteSqlResult(status)
                     THEN ct_pc' = "create_fs220d" /\ UNCHANGED ct_result
                     ELSE CtReturn("False")
    /\ UNCHANGED <<creator, ct_schema, remote_before, ct_idx,
                   ct_success_count, ct_error_count, ct_printed>>
    /\ UNCHANGED <<procVars, tmVars, loadVars, readVars, zipVars, inferVars, mainVars>>

\* create_ncua_tables.py:250-294: CREATE TABLE without IF NOT EXISTS.
CreateFs220d ==
    /\ ct_pc = "create_fs220d"
    /\ \E status \in DdlReplies(~remote.exists /\ Acceptable(ColumnNames(ct_schema))) :
          /\ ct_sent' = Append(ct_sent, Statement("CREATE TABLE", ColumnNames(ct_schema), <<>>, status))
          /\ remote' = IF status \in {200, 204}
                       THEN AfterCreate(remote, ColumnNames(ct_schema)) ELSE remote
          /\ CtReturn(IF ExecuteSqlResult(status) THEN "True" ELSE "False")
    /\ UNCHANGED <<creator, ct_schema, remote_before, ct_idx,
                   ct_success_count, ct_error_count, ct_printed>>
    /\ UNCHANGED <<procVars, tmVars, loadVars, readVars, zipVars, inferVars, mainVars>>

NextCreate ==
    \/ CheckHead \/ CheckSelect \/ PostSchema \/ PostSimpleSchema \/ AddColumn
    \/ AfterColumns \/ PrintCreation \/ DropTable \/ CreateFs220d

InitCreateSpec == InitCreate /\ ProcIdle /\ TmIdle /\ LoadIdle /\ ReadIdle /\ ZipIdle /\ InferIdle /\ MainIdle

SpecCreate == InitCreateSpec /\ [][NextCreate]_vars

-----------------------------------------------------------------------------
(* The statistical type of one column, as a function of the column         *)
(* (processor.py:392-430).                                                 *)

\* str(dtype) of an integer column that can hold nulls
DtIntArrow == <<"i","n","t","6","4","[","p","y","a","r","r","o","w","]">>

\* Values a column can hold.
InferValueSamples ==
    { Num(0, 0), V2147483647, V2147483648, VMinus2147483649, Num(-32768, 0) }

\* The columns handed to the inference: a numpy int64 column has at least one
\* value and nothing raises on it; a column of another integer kind can be
\* without a non-null value.
InferColumnSamples ==
    { c \in [dtype : {DtInt, DtIntArrow, DtFloat, DtObject, DtDatetime},
             vals : {v \in SUBSET InferValueSamples : Cardinality(v) <= MaxInferVals},
             raises : BOOLEAN, isna : BOOLEAN] :
        /\ c.isna => c.vals # {}
        /\ c.dtype = DtInt => c.vals # {} /\ ~c.raises /\ ~c.isna
        /\ c.dtype \in {DtFloat, DtObject, DtDatetime} => ~c.raises /\ ~c.isna }

InitInfer ==
    /\ inf_col \in InferColumnSamples
    /\ inf_pc = "column"
    /\ sql_type = "none"

InferType ==
    /\ inf_pc = "column"
    /\ sql_type' = InferSqlTypeOf(inf_col.dtype, inf_col.vals, inf_col.raises, inf_col.isna)
    /\ inf_pc' = "typed"
    /\ UNCHANGED inf_col
    /\ UNCHANGED <<procVars, tmVars, loadVars, readVars, zipVars, createVars, mainVars>>

NextInfer == InferType

InitInferSpec == InitInfer /\ ProcIdle /\ TmIdle /\ LoadIdle /\ ReadIdle /\ ZipIdle /\ CreateIdle /\ MainIdle

SpecInfer == InitInferSpec /\ [][NextInfer]_vars

-----------------------------------------------------------------------------
(* The polling loop of main() (main.py:48-68).  The ZIPs of the input      *)
(* directory are numbered in the order of their names.                     *)

\* What becomes of a ZIP handed to process_specific_zip: an extract is
\* processed, or the name holds no period, or every extract fails.
ZipKinds == {"completes", "no_period", "all_fail"}

\* processor.py:111-113 and 154-160: the ZIP leaves the input directory only
\* when its name holds a period and an extract was processed.
LeavesInput(kind) == kind = "completes"

\* zip_files.sort(reverse=True); newest_zip = zip_files[0]
Greatest(S) == CHOOSE z \in S : \A y \in S : y <= z

InitMain ==
    /\ input_zips \in UNION { [S -> ZipKinds] : S \in SUBSET (1..MaxZips) }
    /\ main_pc = "list"
    /\ newest_zip = 0
    /\ selected = {}

\* main.py:52-60 and 66-67: list the ZIPs and choose the greatest name.
ListZips ==
    /\ main_pc = "list"
    /\ IF DOMAIN input_zips # {}
       THEN /\ newest_zip' = Greatest(DOMAIN input_zips)
            /\ main_pc' = "process"
       ELSE /\ main_pc' = "sleep"
            /\ UNCHANGED newest_zip
    /\ UNCHANGED <<input_zips, selected>>
    /\ UNCHANGED <<procVars, tmVars, loadVars, readVars, zipVars, createVars, inferVars>>

\* main.py:62-65: process_specific_zip(newest_zip), then the pause.
ProcessNewestZip ==
    /\ main_pc = "process"
    /\ selected' = selected \cup {newest_zip}
    /\ input_zips' = IF LeavesInput(input_zips[newest_zip])
                     THEN [z \in DOMAIN input_zips \ {newest_zip} |-> input_zips[z]]
                     ELSE input_zips
    /\ main_pc' = "list"
    /\ UNCHANGED newest_zip
    /\ UNCHANGED <<procVars, tmVars, loadVars, readVars, zipVars, createVars, inferVars>>

\* main.py:67-68: nothing to process, wait and look again.
WaitForZips ==
    /\ main_pc = "sleep"
    /\ main_pc' = "list"
    /\ UNCHANGED <<input_zips, newest_zip, selected>>
    /\ UNCHANGED <<procVars, tmVars, loadVars, readVars, zipVars, createVars, inferVars>>

NextMain == ListZips \/ ProcessNewestZip \/ WaitForZips

InitMainSpec == InitMain /\ ProcIdle /\ TmIdle /\ LoadIdle /\ ReadIdle /\ ZipIdle /\ CreateIdle /\ InferIdle

SpecMain == InitMainSpec /\ [][NextMain]_vars

\* The loop of main() never stops by itself: while True.
SpecMainLive == SpecMain /\ WF_vars(NextMain)

-----------------------------------------------------------------------------
(* Properties of the load. *)

LoadEnded == ld_pc \in {"returned", "raised", "done"}

\* C7: whenever the row count obtained for the target table is greater than
\* 0, _process_file issues no insert request for the extract and reports it
\* as skipped.
C7_ExistingRowsSkipInsertion ==
    (loader = "DatabaseManager" /\ record_count > 0 /\ ld_pc \notin {"count", "decide"}) =>
        /\ ld_pc = "done"
        /\ run_requests = 0
        /\ reported = "skipped"
        /\ TableRows(store) = rows_at_start

C7_Witness ==
    /\ loader = "DatabaseManager"
    /\ record_count > 0
    /\ ld_pc = "done"
    /\ reported = "skipped"
    /\ http = CountRequest

\* C8: once an earlier run of _process_file has stored at least one row of
\* the extract, a later run for the same extract issues no insert request and
\* leaves the row count of the table unchanged, whatever the outcome of its
\* row-count request.
C8_TableGranularityIdempotence ==
    (loader = "DatabaseManager" /\ run > 1 /\ rows_at_start > 0) =>
        /\ run_requests = 0
        /\ TableRows(store) = rows_at_start

\* C9: when the load of an extract into an empty table is over, no row of the
\* extract is stored more than once, every row of an acknowledged batch is
\* stored exactly once, and every insert request carried the
\* ignore-duplicates preference.
C9_NoRowStoredTwice ==
    (loader \in {"DatabaseManager", "SupabaseDataInserter"} /\ run = 1) =>
        /\ http.kind = "insert" => http.ignore_duplicates
        /\ LoadEnded =>
              /\ \A r \in 1..total : Copies(store, r) <= 1
              /\ \A k \in acked :
                    \A r \in BatchRange(loader, k, total)[1]..BatchRange(loader, k, total)[2] :
                        Copies(store, r) = 1

\* The value the insert method hands back tells that a batch failed.
ResultRecordsFailure(res) == res = "False"

\* C10: a batch that failed its 3 attempts does not end the load: a batch is
\* first submitted only after the batch before it was acknowledged or failed
\* its attempts, the batch after a failed one is submitted before the load
\* ends, and the result of the load records the failure.
C10_FailedBatchDoesNotAbort ==
    loader \in {"DatabaseManager", "NCUADataProcessor", "SupabaseUploader"} =>
        /\ \A k \in DOMAIN attempts :
              k > 0 => (k - BatchSize(loader)) \in (acked \cup failed)
        /\ LoadEnded =>
              \A k \in failed :
                  /\ DictGet(attempts, k) = MaxRetries
                  /\ k + BatchSize(loader) < total =>
                        DictGet(attempts, k + BatchSize(loader)) >= 1
                  /\ ResultRecordsFailure(result)

\* The submissions of batch k in the log of this run.
SubmissionsOf(k) == {a \in 1..Len(log) : log[a].batch = k}

\* The insert method ran through its batch loop and returned.
LoopReturned == ld_pc \in {"returned", "done"} /\ result = ReturnValue(loader)

\* C11: if a batch exhausted its attempts, DatabaseManager.insert_data
\* returns something else than after a load without failure and
\* _process_file reports a partial load; it reports complete insertion only
\* when no batch failed.
C11_PartialLoadIsReported ==
    (loader = "DatabaseManager" /\ ld_pc \in {"returned", "done"}) =>
        /\ failed # {} => result # ReturnValue(loader)
        /\ (ld_pc = "done" /\ failed # {}) => reported = "partial"
        /\ reported = "complete" => failed = {}

\* C12: the submissions of an extract are sequential and bounded: in the
\* order of submission the batches never go back, no batch is submitted after
\* one of its submissions succeeded, no batch is submitted more than 3 times,
\* every batch is submitted when the method returns, and an attempt that
\* timed out or was answered with a status outside 200..299 counts as failed.
C12_SequentialBoundedAttempts ==
    loader \in {"DatabaseManager", "SupabaseDataInserter"} =>
        /\ \A a, b \in 1..Len(log) :
              a < b => /\ log[a].batch <= log[b].batch
                       /\ log[a].ok => log[b].batch # log[a].batch
        /\ \A k \in BatchStarts(loader, total) :
              /\ Cardinality(SubmissionsOf(k)) <= MaxRetries
              /\ LoopReturned => Cardinality(SubmissionsOf(k)) >= 1
        /\ \A a \in 1..Len(log) : ~log[a].status_2xx => ~log[a].ok

\* C13: every insert method takes exactly the statuses 200..299 as success,
\* the 204 without a body as the 200 and the 201 with one.
C13_SuccessIsExactly2xx ==
    loader \in {"DatabaseManager", "SupabaseDataInserter",
                "SupabaseAPIUploader", "SupabaseDirectSQL"} =>
        \A a \in 1..Len(log) : log[a].ok <=> log[a].status_2xx

\* C14: when every submission of an extract of n rows succeeded, the batches
\* are consecutive row ranges that start at row 1 and end at row n, none
\* empty, none larger than the batch size and all but the last of that size,
\* every row is in exactly one submission, and n rows are reported inserted.
C14_ChunksPartitionTheRows ==
    (/\ loader = "DatabaseManager"
     /\ run = 1
     /\ ld_pc = "done"
     /\ result = ReturnValue(loader)
     /\ \A a \in 1..Len(log) : log[a].ok) =>
        /\ Len(log) >= 1
        /\ log[1].rows[1] = 1
        /\ log[Len(log)].rows[2] = total
        /\ \A a \in 1..Len(log) :
              /\ log[a].rows[1] <= log[a].rows[2]
              /\ log[a].rows[2] - log[a].rows[1] + 1 <= BatchSize(loader)
              /\ a < Len(log) =>
                    /\ log[a].rows[2] - log[a].rows[1] + 1 = BatchSize(loader)
                    /\ log[a + 1].rows[1] = log[a].rows[2] + 1
        /\ \A r \in 1..total :
              Cardinality({a \in 1..Len(log) : log[a].rows[1] <= r /\ r <= log[a].rows[2]}) = 1
        /\ RowsReported(reported, total) = total

C14_Witness ==
    /\ loader = "DatabaseManager"
    /\ run = 1
    /\ ld_pc = "done"
    /\ result = ReturnValue(loader)
    /\ Len(log) = 2
    /\ \A a \in 1..Len(log) : log[a].ok
    /\ total = DmBatchSize + 1
    /\ reported = "complete"

\* C20: every HTTP request issued while an extract is loaded carries an
\* explicit timeout.
C20_EveryRequestHasTimeout ==
    (loader \in {"DatabaseManager", "SupabaseDataInserter"} /\ http.kind # "none") =>
        http.timeout > 0

-----------------------------------------------------------------------------
(* Properties of the schema resolution of _process_file. *)

\* C15: schema resolution never raises: whatever the extract (a column
\* without values, a column of mixed kinds, no data row), _process_file gets a
\* table definition and goes on to the table creation, it never ends in an
\* exception before.
C15_SchemaResolutionNeverRaises ==
    /\ pc # "error"
    /\ pc = "create_table" => schema.stmt = "CREATE TABLE IF NOT EXISTS"

\* C16: when _generate_schema raised, the statement used for the table
\* creation is a CREATE TABLE IF NOT EXISTS of the same table with the
\* synthetic key and then one column per column of the frame, in the order of
\* the frame, each TEXT, and _process_file goes on to the table creation.
C16_FallbackSchemaIsAllText ==
    schema_error =>
        /\ pc = "create_table"
        /\ schema.stmt = "CREATE TABLE IF NOT EXISTS"
        /\ schema.table = table_name
        /\ Len(schema.columns) = Len(df.columns) + 1
        /\ schema.columns[1] = IdColumn
        /\ \A i \in 1..Len(df.columns) :
              schema.columns[i + 1] = [name |-> df.columns[i].name, type |-> "TEXT"]

C16_Witness ==
    /\ schema_error
    /\ pc = "create_table"
    /\ Len(df.columns) = MaxCols
    /\ \E i \in 1..Len(df.columns) : df.columns[i].dtype = DtInt

\* C17: the type of every column is the outcome of the first rule that
\* matches, in the order keyword (TEXT), table with known large numbers
\* (NUMERIC, TIMESTAMP or TEXT by kind), catalogue entry, statistics of the
\* values.  _generate_schema has no catalogue, which leaves three rules.
C17_FirstMatchingRuleDecides ==
    (pc = "create_table" /\ ~schema_error) =>
        \A i \in 1..Len(df.columns) :
            schema.columns[i + 1].type =
                IF HasKeyword(StrLower(df.columns[i].name)) THEN "TEXT"
                ELSE IF HasLargeNumbers(table_name) THEN LargeTableSqlType(df.columns[i])
                ELSE InferSqlType(df.columns[i])

-----------------------------------------------------------------------------
(* Properties of the readers. *)

\* C18: every reader returns the frame of the first pair, in the order of
\* the encodings (outer) and the separators comma, tab, pipe, semicolon
\* (inner), that decodes, parses and yields more than one column; it never
\* returns a frame of one column, and it fails when no pair qualifies.
C18_FirstQualifyingPairIsReturned ==
    LET qualifies(e, d) ==
            LET r == ReadCsv(rd_file, Encodings[e], Separators[d])
            IN  r.raised = "none" /\ r.ncols > 1
        rank(e, d) == (e - 1) * Len(Separators) + d
        pairs == (1..Len(Encodings)) \X (1..Len(Separators))
        good == {q \in pairs : qualifies(q[1], q[2])}
    IN  /\ rd_pc = "returned" =>
              /\ rd_result.ncols > 1
              /\ \E q \in good :
                    /\ \A o \in good : rank(q[1], q[2]) <= rank(o[1], o[2])
                    /\ rd_result.encoding = Encodings[q[1]]
                    /\ rd_result.sep = Separators[q[2]]
        /\ rd_pc = "failed" => good = {}

-----------------------------------------------------------------------------
(* Properties of the run over a ZIP. *)

\* C19: the failure of an extract never halts the run over a ZIP: the method
\* is never left by an exception, and when it has ended every extract of the
\* ZIP has been handled.
C19_FailedExtractDoesNotHaltRun ==
    /\ zip_pc # "aborted"
    /\ zip_pc \in {"finished", "finished_unmoved"} => Len(outcomes) = Len(extracts)

-----------------------------------------------------------------------------
(* Properties of the table creation. *)

CreationReturned == ct_pc \in {"returned", "done"}

\* C21: every table-definition statement sent to the store is a CREATE TABLE
\* IF NOT EXISTS or an ADD COLUMN IF NOT EXISTS, never a DROP TABLE nor an
\* unconditional CREATE TABLE, and a table that existed before the creation
\* still exists with its rows and its columns.
C21_DefinitionsAreIdempotent ==
    /\ \A k \in 1..Len(ct_sent) :
          ct_sent[k].kind \in {"CREATE TABLE IF NOT EXISTS", "ADD COLUMN IF NOT EXISTS"}
    /\ remote_before.exists =>
          /\ remote.exists
          /\ remote.rows = remote_before.rows
          /\ remote_before.columns \subseteq remote.columns

\* The columns of the schema other than the key, in schema order.
DataColumns(sch) ==
    SelectSeq(sch.columns, LAMBDA c : StrLower(c.name) # IdColumn.name)

Applied(status) == status \in {200, 204}

\* C22: when the store rejected the full statement, create_tables sends the
\* statement of the table with the key only and then, once that table is
\* there, one ADD COLUMN IF NOT EXISTS for each data column of the schema, in
\* schema order and with the column's type, whatever became of the columns
\* before; the columns whose statement was applied are in the table.
C22_FallbackAddsEveryColumn ==
    (/\ creator = "DatabaseManager"
     /\ CreationReturned
     /\ Len(ct_sent) >= 1
     /\ ct_sent[1].status >= 400) =>
        /\ Len(ct_sent) >= 2
        /\ ct_sent[2].kind = "CREATE TABLE IF NOT EXISTS"
        /\ ct_sent[2].columns = <<IdColumn.name>>
        /\ Applied(ct_sent[2].status) =>
              LET alters == SubSeq(ct_sent, 3, Len(ct_sent))
                  expected == DataColumns(ct_schema)
              IN  /\ Len(alters) = Len(expected)
                  /\ \A k \in 1..Len(alters) :
                        /\ k <= Len(expected)
                        /\ alters[k].kind = "ADD COLUMN IF NOT EXISTS"
                        /\ alters[k].columns = <<expected[k].name>>
                        /\ alters[k].type = TypeChars(expected[k].type)
                        /\ Applied(alters[k].status) => expected[k].name \in remote.columns

\* The creation failed: there was no table before, and on return there is
\* none, or one without any data column of the schema.
CreationFailed ==
    /\ ~remote_before.exists
    /\ \/ ~remote.exists
       \/ \A k \in 1..Len(DataColumns(ct_schema)) :
             DataColumns(ct_schema)[k].name \notin remote.columns

\* C27: create_tables returns False whenever the creation failed, and
\* _process_file then prints its warning.
C27_FailedCreationReturnsFalse ==
    creator = "DatabaseManager" =>
        /\ (CreationReturned /\ CreationFailed) => ct_result = "False"
        /\ (ct_pc = "done" /\ CreationFailed) => ct_printed = "Warning"

-----------------------------------------------------------------------------
(* Properties of the statistical type. *)

-----------------------------------------------------------------------------
(* Properties of the records of DatabaseManager.insert_data against the    *)
(* table definition.                                                       *)

\* The identifiers of the table definition, the synthetic key excepted.
CreatedColumns(sch) == {sch.columns[i].name : i \in 2..Len(sch.columns)}

C25_TextColumnsGetStrings ==
    pc = "create_table" =>
        \A i \in 1..Len(df.columns) :
            schema.columns[i + 1].type = "TEXT" => RecordValueKind(df.columns[i]) = "string"

-----------------------------------------------------------------------------
(* Properties of the catalogue loading and of the types at insertion. *)

TriedIn(dir) == SelectSeq(tm_tried, LAMBDA f : f.dir = dir)

FoundIn(dir) == \E k \in 1..Len(tm_tried) : tm_tried[k].dir = dir /\ tm_tried[k].exists

\* The column is typed by its name alone: a join key or a keyword.
TypedByName(col) ==
    \/ StrLower(col.name) \in CriticalJoinFields
    \/ HasKeyword(StrLower(col.name))

C30_InsertionTypeIsCreatedType ==
    tm_pc = "created" =>
        \A i \in 1..Len(tm_df) :
            GetSqlTypeForColumn(TmCleanColumnName(tm_df[i].name), tm_df[i].dtype, column_types)
                = tm_columns[i].type

-----------------------------------------------------------------------------
(* Properties of the files of a ZIP run. *)

ProcessZipReturned == zip_pc \in {"finished", "finished_unmoved", "fatal"}

-----------------------------------------------------------------------------
(* Properties of the polling loop. *)

\* C29: every ZIP of the input directory is eventually handed to
\* process_specific_zip, whatever becomes of the other ZIPs.
C29_EveryZipIsEventuallySelected ==
    \A z \in 1..MaxZips : [](z \in DOMAIN input_zips => <>(z \in selected))

=============================================================================
